---- MODULE Spec2Model ----
(***************************************************************************)
(* The upload portal's canonical model pipeline (src/unnamed/part_004):    *)
(* load and normalize a model in the preview, edit it with the transform   *)
(* widget, set a target height, bake and export it.                        *)
(*                                                                         *)
(* Numbers are JavaScript numbers idealised as exact rationals n/d,        *)
(* extended with +Infinity (1/0), -Infinity (-1/0) and NaN (0/0), so that  *)
(* a division by zero yields what the code's division yields; rounding is  *)
(* not modelled ("equal" here is the spec's "equal within epsilon").       *)
(***************************************************************************)
EXTENDS Integers, Sequences, FiniteSets, TLC

VARIABLES
    file,                  \* useState file: NULL or the selected file
    targetHeight,          \* useState targetHeight: "" or a number of mm
    scaleFactor,           \* useState scaleFactor: NULL or a number
    transformMode,         \* useState transformMode (the mode the UI highlights)
    transformModeRef,      \* transformModeRef.current
    manualPositionSet,     \* useState manualPositionSet
    manualPositionSetRef,  \* manualPositionSetRef.current
    loads,                 \* one record per handleFile call: its read, decode, scene, model, widget
    sceneRef,              \* sceneRef.current: 0 or the load whose initPreview ran last
    modelRef,              \* modelRef.current: 0 or the load whose model it holds
    transformControlsRef,  \* transformControlsRef.current: 0 or the load whose widget it holds
    originalBBoxRef,       \* originalBBoxRef.current: NULL or a box
    dragging,              \* a widget drag is in progress in the displayed scene
    orbitEnabled,          \* orbitControls.enabled of the displayed scene
    isUploading,           \* useState isUploading
    uploadPc,              \* handleUpload's position: "idle", "serializing", "uploading", "alert"
    exported,              \* NULL or the export clone handleUpload built
    uploadResult,          \* useState uploadResult
    catalog,               \* the catalog records appended so far
    nMoves,                \* pointer moves of widget drags so far (bounded)
    \* the viewport of the upload preview
    darkMode,              \* useState darkMode
    gridVisible,           \* useState gridVisible
    background,            \* sceneRef.current.background: "white", "black" or "null"
    gridShown,             \* gridRef.current.visible
    ctlVisible,            \* transformControlsRef.current.visible
    thumbnailDataUrl,      \* useState thumbnailDataUrl: NULL or what the captured frame shows
    isAnalyzing,           \* useState isAnalyzing
    alertText,             \* NULL or what the last alert() told the user
    \* the edit modal
    editingItem,           \* useState editingItem: NoFile or the catalog item's file
    editLoads,             \* one record per run of the edit viewer effect
    editSceneRef,          \* editSceneRef.current: 0 or the run whose scene it holds
    editModelRef,          \* editModelRef.current: 0 or the run whose model it holds
    editTransformControlsRef, \* editTransformControlsRef.current: 0 or a run's widget
    editTransformMode,     \* useState editTransformMode
    editTransformModeRef,  \* editTransformModeRef.current
    editManualPositionSet, \* useState editManualPositionSet
    editManualPositionSetRef, \* editManualPositionSetRef.current
    editDragging,          \* a widget drag is in progress in the edit scene
    editOrbitEnabled,      \* orbitControls.enabled of the edit scene
    editBackground,        \* editSceneRef.current.background
    editCtlVisible,        \* editTransformControlsRef.current.visible
    editThumbnail,         \* editingItem.thumbnail: NULL or what the captured frame shows
    \* the bulk upload scene
    bulkBackground,        \* scene.background of processBulkFiles' scene
    bulkThumbnail,         \* thumbnail of processSingleFile: NULL or what the frame shows
    bulkFiles,             \* bulkFiles.length of the running processBulkFiles, else 0
    bulkIndex,             \* the file processBulkFiles' loop is at (from 1), else 0
    bulkScene,             \* the files whose model is a child of the off-screen scene
    bulkRendered,          \* NULL or the file last rendered and the models its frames show
    \* autoCropImage
    canvas,                \* the canvas handed to autoCropImage
    cropped,               \* NULL or the image autoCropImage returned
    \* extractMaterials
    traversed,             \* the materials model.traverse has handed to forEach so far
    mats,                  \* const mats: MaterialInfo[]
    cols,                  \* const cols: string[]
    matSet,                \* const matSet = new Set<string>()
    colorSet,               \* const colorSet = new Set<string>()
    \* the upload form
    objectName,            \* useState objectName
    tags,                  \* useState tags
    category,              \* useState category
    aiDescription,         \* useState aiDescription
    analysisOf,            \* the file selection whose screenshot the pending analysis sent, else 0
    renderError,            \* a state updater has thrown while the component rendered
    \* the catalogue grid (src/app/page.tsx)
    generationQueue,   \* the queued thumbnail tasks, each named by the grid item that pushed it
    activeGenerators,  \* the module-level count of generator slots taken
    hasThumbnail,      \* item -> the catalogue item carries thumbnails
    mounted,           \* item -> a GridItem of the item is mounted
    isGenerating,      \* item -> the mounted GridItem's isGenerating state
    viewer,            \* item -> the hidden capture viewer of the mounted GridItem
    pendingCaptures    \* item -> captures of unmounted GridItems still resizing their image

vars == <<file, targetHeight, scaleFactor, transformMode, transformModeRef,
          manualPositionSet, manualPositionSetRef, loads, sceneRef, modelRef,
          transformControlsRef, originalBBoxRef, dragging, orbitEnabled,
          isUploading, uploadPc, exported, uploadResult, catalog, nMoves,
          darkMode, gridVisible, background, gridShown, ctlVisible, thumbnailDataUrl,
          isAnalyzing, alertText,
          editingItem, editLoads, editSceneRef, editModelRef, editTransformControlsRef,
          editTransformMode, editTransformModeRef, editManualPositionSet,
          editManualPositionSetRef, editDragging, editBackground, editCtlVisible,
          editThumbnail, editOrbitEnabled, bulkBackground, bulkThumbnail,
          bulkFiles, bulkIndex, bulkScene, bulkRendered, canvas, cropped,
          traversed, mats, cols, matSet, colorSet,
          objectName, tags, category, aiDescription, analysisOf, renderError,
          generationQueue, activeGenerators, hasThumbnail, mounted, isGenerating, viewer, pendingCaptures>>

\* the variables of each part of the component
viewVars == <<darkMode, gridVisible, background, gridShown, ctlVisible, thumbnailDataUrl,
              isAnalyzing, alertText>>

editVars == <<editingItem, editLoads, editSceneRef, editModelRef, editTransformControlsRef,
              editTransformMode, editTransformModeRef, editManualPositionSet,
              editManualPositionSetRef, editDragging, editBackground, editCtlVisible,
              editThumbnail, editOrbitEnabled>>

bulkVars == <<bulkBackground, bulkThumbnail, bulkFiles, bulkIndex, bulkScene, bulkRendered>>

cropVars == <<canvas, cropped>>

queueVars == <<generationQueue, activeGenerators, hasThumbnail, mounted, isGenerating,
               viewer, pendingCaptures>>

formVars == <<objectName, tags, category, aiDescription, analysisOf, renderError>>

matVars == <<traversed, mats, cols, matSet, colorSet>>

uploadVars == <<file, targetHeight, scaleFactor, transformMode, transformModeRef,
                manualPositionSet, manualPositionSetRef, loads, sceneRef, modelRef,
                transformControlsRef, originalBBoxRef, dragging, orbitEnabled,
                isUploading, uploadPc, exported, uploadResult, catalog, nMoves>>

\* null for a reference to an object or a number; NoFile for the file state
NULL == [null |-> TRUE]

NoFile == "null"

----------------------------------------------------------------------------
(* Bounds of the model *)

MaxLoads == 2      \* handleFile calls in one behaviour
MaxMoves == 1      \* pointer moves of widget drags in one behaviour
MaxUploads == 1    \* handleUpload calls in one behaviour
MaxCoord == 2      \* vertex coordinates of the swept boxes range over -1..MaxCoord
MaxDragMoves == 2  \* pointer moves in one behaviour of the drag session
MaxEdits == 2      \* times the edit modal is opened in one behaviour
MaxSide == 24      \* width and height of the largest rendered frame, in pixels
MaxMaterials == 3  \* materials one traversal meets
MaxItems == 3      \* catalogue items the grid can show
MaxBulkFiles == 5  \* files of one bulk selection

----------------------------------------------------------------------------
(* JavaScript numbers *)

Abs(x) == IF x < 0 THEN -x ELSE x

Sign(x) == IF x > 0 THEN 1 ELSE IF x < 0 THEN -1 ELSE 0

RECURSIVE GCD(_, _)
GCD(a, b) == IF b = 0 THEN a ELSE GCD(b, a % b)

\* n/d in lowest terms with d >= 0; d = 0 is +Infinity, -Infinity or NaN
Num(n, d) ==
    IF d = 0 THEN [n |-> Sign(n), d |-> 0]
    ELSE LET g == GCD(Abs(n), Abs(d))
             s == Sign(d)
         IN  [n |-> s * (n \div g), d |-> s * (d \div g)]

Q(i) == [n |-> i, d |-> 1]

NaN == [n |-> 0, d |-> 0]

Infinity == [n |-> 1, d |-> 0]

IsNaN(a) == a.d = 0 /\ a.n = 0

IsFinite(a) == a.d # 0

RNeg(a) == [n |-> -a.n, d |-> a.d]

RAdd(a, b) ==
    IF a.d # 0 /\ b.d # 0 THEN Num(a.n * b.d + b.n * a.d, a.d * b.d)
    ELSE IF IsNaN(a) \/ IsNaN(b) THEN NaN
    ELSE IF a.d = 0 /\ b.d = 0 THEN (IF a.n = b.n THEN a ELSE NaN)
    ELSE IF a.d = 0 THEN a ELSE b

RSub(a, b) == RAdd(a, RNeg(b))

RMul(a, b) == Num(a.n * b.n, a.d * b.d)

\* 1 / b; 1 / 0 is +Infinity (a size is max - min, never -0)
RRecip(b) ==
    IF b.d = 0 THEN (IF b.n = 0 THEN NaN ELSE Q(0))
    ELSE Num(b.d, b.n)

RDiv(a, b) == RMul(a, RRecip(b))

RLt(a, b) ==
    IF IsNaN(a) \/ IsNaN(b) THEN FALSE
    ELSE IF a.d = 0 /\ b.d = 0 THEN a.n < b.n
    ELSE a.n * b.d < b.n * a.d

\* Math.min and Math.max: NaN if either argument is NaN
RMin(a, b) == IF IsNaN(a) \/ IsNaN(b) THEN NaN ELSE IF RLt(b, a) THEN b ELSE a

RMax(a, b) == IF IsNaN(a) \/ IsNaN(b) THEN NaN ELSE IF RLt(a, b) THEN b ELSE a

\* a JavaScript condition `if (x)` on a number or null: false for null, 0 and NaN
Truthy(a) == a # NULL /\ ~IsNaN(a) /\ a.n # 0

----------------------------------------------------------------------------
(* three.js vectors, matrices, boxes and transforms *)

Vec(x, y, z) == <<Q(x), Q(y), Q(z)>>

VAdd(u, v) == <<RAdd(u[1], v[1]), RAdd(u[2], v[2]), RAdd(u[3], v[3])>>

\* the rotations the model uses, as 3x3 matrices: none, and a quarter turn about X
RotIdentity == <<Vec(1, 0, 0), Vec(0, 1, 0), Vec(0, 0, 1)>>

RotX90 == <<Vec(1, 0, 0), Vec(0, 0, -1), Vec(0, 1, 0)>>

\* the product of two rotations (quaternion premultiply: a applied after b)
RotEntry(a, b, i, j) ==
    RAdd(RAdd(RMul(a[i][1], b[1][j]), RMul(a[i][2], b[2][j])), RMul(a[i][3], b[3][j]))

RotMul(a, b) ==
    <<<<RotEntry(a, b, 1, 1), RotEntry(a, b, 1, 2), RotEntry(a, b, 1, 3)>>,
      <<RotEntry(a, b, 2, 1), RotEntry(a, b, 2, 2), RotEntry(a, b, 2, 3)>>,
      <<RotEntry(a, b, 3, 1), RotEntry(a, b, 3, 2), RotEntry(a, b, 3, 3)>>>>

\* a node's local transform: Object3D position, rotation, scale
TRS(p, r, s) == [position |-> p, rotation |-> r, scale |-> s]

IdentityTRS == TRS(Vec(0, 0, 0), RotIdentity, Vec(1, 1, 1))

\* Matrix4.compose(position, quaternion, scale): rows 1..3 of the affine matrix,
\* each <<m_i1, m_i2, m_i3, translation_i>>; column j of the rotation times scale_j
ComposeRow(t, i) ==
    <<RMul(t.rotation[i][1], t.scale[1]), RMul(t.rotation[i][2], t.scale[2]),
      RMul(t.rotation[i][3], t.scale[3]), t.position[i]>>

Compose(t) == <<ComposeRow(t, 1), ComposeRow(t, 2), ComposeRow(t, 3)>>

IdentityMatrix == Compose(IdentityTRS)

\* Matrix4.multiplyMatrices(a, b) of two affine matrices
MatMulRow(a, b, i) ==
        <<RAdd(RAdd(RMul(a[i][1], b[1][1]), RMul(a[i][2], b[2][1])), RMul(a[i][3], b[3][1])),
          RAdd(RAdd(RMul(a[i][1], b[1][2]), RMul(a[i][2], b[2][2])), RMul(a[i][3], b[3][2])),
          RAdd(RAdd(RMul(a[i][1], b[1][3]), RMul(a[i][2], b[2][3])), RMul(a[i][3], b[3][3])),
          RAdd(RAdd(RAdd(RMul(a[i][1], b[1][4]), RMul(a[i][2], b[2][4])),
                    RMul(a[i][3], b[3][4])), a[i][4])>>

MatMul(a, b) == <<MatMulRow(a, b, 1), MatMulRow(a, b, 2), MatMulRow(a, b, 3)>>

\* Vector3.applyMatrix4
ApplyRow(m, v, i) ==
    RAdd(RAdd(RAdd(RMul(m[i][1], v[1]), RMul(m[i][2], v[2])), RMul(m[i][3], v[3])), m[i][4])

ApplyMatrix4(m, v) == <<ApplyRow(m, v, 1), ApplyRow(m, v, 2), ApplyRow(m, v, 3)>>

\* BufferGeometry.applyMatrix4: every vertex of the position buffer
RECURSIVE GeometryApplyMatrix4(_, _)
GeometryApplyMatrix4(verts, m) ==
    IF verts = <<>> THEN <<>>
    ELSE <<ApplyMatrix4(m, Head(verts))>> \o GeometryApplyMatrix4(Tail(verts), m)

RECURSIVE SeqMin(_, _)
SeqMin(s, c) ==
    IF s = <<>> THEN Infinity ELSE RMin(s[1][c], SeqMin(Tail(s), c))

RECURSIVE SeqMax(_, _)
SeqMax(s, c) ==
    IF s = <<>> THEN RNeg(Infinity) ELSE RMax(s[1][c], SeqMax(Tail(s), c))

\* Box3.setFromPoints
BoxOfPoints(pts) ==
    [min |-> <<SeqMin(pts, 1), SeqMin(pts, 2), SeqMin(pts, 3)>>,
     max |-> <<SeqMax(pts, 1), SeqMax(pts, 2), SeqMax(pts, 3)>>]

\* the eight corners of a box
Corners(b) ==
    <<<<b.min[1], b.min[2], b.min[3]>>, <<b.min[1], b.min[2], b.max[3]>>,
      <<b.min[1], b.max[2], b.min[3]>>, <<b.min[1], b.max[2], b.max[3]>>,
      <<b.max[1], b.min[2], b.min[3]>>, <<b.max[1], b.min[2], b.max[3]>>,
      <<b.max[1], b.max[2], b.min[3]>>, <<b.max[1], b.max[2], b.max[3]>>>>

\* Box3.getSize and Box3.getCenter
BoxSize(b) == <<RSub(b.max[1], b.min[1]), RSub(b.max[2], b.min[2]), RSub(b.max[3], b.min[3])>>

BoxCenter(b) ==
    <<RMul(RAdd(b.min[1], b.max[1]), Num(1, 2)), RMul(RAdd(b.min[2], b.max[2]), Num(1, 2)),
      RMul(RAdd(b.min[3], b.max[3]), Num(1, 2))>>

(***************************************************************************)
(* A model is the root group gltf.scene with its own transform, one child  *)
(* group node and one mesh under it, each with a local transform, and the  *)
(* mesh's vertex buffer.  A mesh directly under the root is the case of an *)
(* identity child group.                                                   *)
(***************************************************************************)
Model(root, group, mesh, geometry) ==
    [position |-> root.position, rotation |-> root.rotation, scale |-> root.scale,
     group |-> group, mesh |-> mesh, geometry |-> geometry]

RootTRS(m) == TRS(m.position, m.rotation, m.scale)

\* Object3D.updateMatrixWorld: the mesh's matrixWorld is the product of its ancestors'
\* local matrices and its own (the root's parent, the scene, is at identity)
MeshMatrixWorld(m) == MatMul(MatMul(Compose(RootTRS(m)), Compose(m.group)), Compose(m.mesh))

\* the world position of every vertex of the model
WorldVertices(m) == GeometryApplyMatrix4(m.geometry, MeshMatrixWorld(m))

\* Box3.setFromObject(model): the mesh's local bounding box, its corners taken to
\* world space by matrixWorld, and the box of those
SetFromObject(m) ==
    BoxOfPoints(GeometryApplyMatrix4(Corners(BoxOfPoints(m.geometry)), MeshMatrixWorld(m)))

----------------------------------------------------------------------------
(* Normalization in the preview *)

PreviewTarget == 2

\* setScalar(s)
SetScalar(s) == <<s, s, s>>

\* a snapToGround that never moves the model
SnapToGroundSkipped(m, skipSnap) == m

\* a snapToGround that ignores skipSnap
SnapToGroundAlways(m, skipSnap) ==
    [m EXCEPT !.position[2] = RSub(m.position[2], SetFromObject(m).min[2])]

\* snapToGround(model, skipSnap)
SnapToGround(m, skipSnap) ==
    IF skipSnap THEN m
    ELSE LET box == SetFromObject(m)
             minY == box.min[2]
         IN  [m EXCEPT !.position[2] = RSub(m.position[2], minY)]

\* a preview scale taken from the height instead of the largest extent
PreviewScaleByHeight(box) == RDiv(Q(PreviewTarget), BoxSize(box)[2])

\* the preview scale of the loader callback: 2 / maxDim
PreviewScale(box) ==
    LET size == BoxSize(box)
        maxDim == RMax(RMax(size[1], size[2]), size[3])
    IN  RDiv(Q(PreviewTarget), maxDim)

\* the loader callback's normalization of gltf.scene: center horizontally and put
\* the bottom on the ground, scale the largest extent to 2, snap to ground again
Normalize(m) ==
    LET box == SetFromObject(m)
        center == BoxCenter(box)
        positioned == [m EXCEPT !.position = <<RNeg(center[1]), RNeg(box.min[2]), RNeg(center[3])>>]
        scaled == [positioned EXCEPT !.scale = SetScalar(PreviewScale(box))]
    IN  SnapToGround(scaled, FALSE)

----------------------------------------------------------------------------
(* Files and their decoded content *)

Files == {"flat.glb", "nested.glb"}

\* flat.glb: one mesh directly under the root, raw bounds X:[0,2] Y:[0,1] Z:[0,4].
\* nested.glb: a mesh under a group node that is moved and scaled.
Content(f) ==
    IF f = "flat.glb"
    THEN Model(IdentityTRS, IdentityTRS, IdentityTRS, <<Vec(0, 0, 0), Vec(2, 1, 4)>>)
    ELSE Model(IdentityTRS, TRS(Vec(1, 0, 0), RotIdentity, Vec(2, 2, 2)), IdentityTRS,
               <<Vec(-1, 0, -1), Vec(1, 1, 1)>>)

\* a model that is one mesh directly under the root whose bounding box is [lo, hi]
BoxContent(lo, hi) == Model(IdentityTRS, IdentityTRS, IdentityTRS, <<lo, hi>>)

Coords == -1..MaxCoord

Modes == {"rotate", "translate", "scale"}

Heights == {"100"}

\* what a pointer move of a drag does in each widget mode
TranslateDrags == {Vec(0, 1, 0)}

RotateDrags == {RotX90}

ScaleDrags == {Vec(2, 2, 2), Vec(1, 2, 1)}

NewLoad(f, c) ==
    [file |-> f, stage |-> "reading", content |-> c, model |-> NULL,
     ctlMode |-> "none", ctlDisposed |-> FALSE]

\* a finished load nothing refers to any more
GoneLoad ==
    [file |-> "gone", stage |-> "gone", content |-> NULL, model |-> NULL,
     ctlMode |-> "none", ctlDisposed |-> TRUE]

\* The loads ls once sceneRef, modelRef and transformControlsRef are s, m and t: a
\* finished load that none of them refers to is unreachable from the component, and
\* so is the model of a load that is neither displayed nor held by modelRef.
Collect(ls, s, m, t) ==
    [i \in DOMAIN ls |->
        IF ls[i].stage \in {"loaded", "failed"} /\ i \notin {s, m, t} THEN GoneLoad
        ELSE IF ls[i].stage = "loaded" /\ i \notin {s, m} THEN [ls[i] EXCEPT !.model = NULL]
        ELSE ls[i]]

----------------------------------------------------------------------------
(* The initial state: the component as first rendered, its effects run *)

\* the viewport before any scene exists
ViewInit ==
    /\ darkMode = FALSE
    /\ gridVisible = FALSE
    /\ background = "null"
    /\ gridShown = FALSE
    /\ ctlVisible = TRUE
    /\ thumbnailDataUrl = NULL
    /\ isAnalyzing = FALSE
    /\ alertText = NULL

\* the edit modal closed, never opened
EditInit ==
    /\ editingItem = NoFile
    /\ editLoads = <<>>
    /\ editSceneRef = 0
    /\ editModelRef = 0
    /\ editTransformControlsRef = 0
    /\ editTransformMode = "rotate"
    /\ editTransformModeRef = "rotate"
    /\ editManualPositionSet = FALSE
    /\ editManualPositionSetRef = FALSE
    /\ editDragging = FALSE
    /\ editOrbitEnabled = TRUE
    /\ editBackground = "null"
    /\ editCtlVisible = TRUE
    /\ editThumbnail = NULL

\* no bulk upload running
BulkInit ==
    /\ bulkBackground = "null"
    /\ bulkThumbnail = NULL
    /\ bulkFiles = 0
    /\ bulkIndex = 0
    /\ bulkScene = {}
    /\ bulkRendered = NULL

\* autoCropImage not called
CropInit ==
    /\ canvas = NULL
    /\ cropped = NULL

\* extractMaterials as it starts: empty arrays and sets
Items == 1..MaxItems

\* the grid before the catalogue has loaded: nothing mounted, nothing queued
QueueInit ==
    /\ generationQueue = <<>>
    /\ activeGenerators = 0
    /\ hasThumbnail = [i \in Items |-> FALSE]
    /\ mounted = [i \in Items |-> FALSE]
    /\ isGenerating = [i \in Items |-> FALSE]
    /\ viewer = [i \in Items |-> "none"]
    /\ pendingCaptures = [i \in Items |-> 0]

MatInit ==
    /\ traversed = <<>>
    /\ mats = <<>>
    /\ cols = <<>>
    /\ matSet = {}
    /\ colorSet = {}

\* the form as first rendered
FormInit ==
    /\ objectName = ""
    /\ tags = <<>>
    /\ category = "misc"
    /\ aiDescription = ""
    /\ analysisOf = 0
    /\ renderError = FALSE

\* f.name.replace(/\.(glb|gltf)$/i, '')
NameOf(f) ==
    CASE f = "flat.glb" -> "flat"
      [] f = "nested.glb" -> "nested"
      [] f = "box.glb" -> "box"
      [] OTHER -> f

\* the form once handleFile(f) has run on the form as first rendered
FormOf(f) ==
    /\ objectName = NameOf(f)
    /\ tags = <<>>
    /\ category = "misc"
    /\ aiDescription = ""
    /\ analysisOf = 0
    /\ renderError = FALSE

Init ==
    /\ ViewInit /\ EditInit /\ BulkInit /\ CropInit /\ MatInit /\ FormInit /\ QueueInit
    /\ file = NoFile
    /\ targetHeight = ""
    /\ scaleFactor = NULL
    /\ transformMode = "rotate"
    /\ transformModeRef = "rotate"
    /\ manualPositionSet = FALSE
    /\ manualPositionSetRef = FALSE
    /\ loads = <<>>
    /\ sceneRef = 0
    /\ modelRef = 0
    /\ transformControlsRef = 0
    /\ originalBBoxRef = NULL
    /\ dragging = FALSE
    /\ orbitEnabled = TRUE
    /\ isUploading = FALSE
    /\ uploadPc = "idle"
    /\ exported = NULL
    /\ uploadResult = NULL
    /\ catalog = <<>>
    /\ nMoves = 0

\* alert() blocks the page's only thread until it is dismissed: no handler, callback or
\* effect runs while handleUpload's catch block is showing its alert
Responsive == uploadPc # "alert" /\ ~renderError

----------------------------------------------------------------------------
(* Loading a file *)

\* handleFile(f): select the file, clear the manual-position flags, start the read
HandleFile(f) ==
    /\ Responsive
    /\ Len(loads) < MaxLoads
    /\ file' = f
    /\ uploadResult' = NULL
    /\ manualPositionSet' = FALSE
    /\ manualPositionSetRef' = FALSE
    /\ loads' = Append(loads, NewLoad(f, Content(f)))
    /\ UNCHANGED <<targetHeight, scaleFactor, transformMode, transformModeRef, sceneRef,
                   modelRef, transformControlsRef, originalBBoxRef, dragging, orbitEnabled,
                   isUploading, uploadPc, exported, catalog, nMoves>>
    /\ thumbnailDataUrl' = NULL
    /\ objectName' = NameOf(f)
    /\ aiDescription' = ""
    /\ UNCHANGED <<tags, category, analysisOf, renderError>>
    /\ UNCHANGED <<darkMode, gridVisible, background, gridShown, ctlVisible, isAnalyzing,
                   alertText>>
    /\ UNCHANGED <<editVars, bulkVars, cropVars, matVars, queueVars>>

\* reader.onload -> initPreview(arrayBuffer), up to loader.load: dispose the widget
\* transformControlsRef holds, empty the container, build a new scene with its own
\* orbit controls, start the decode
InitPreview(k) ==
    /\ Responsive
    /\ k \in DOMAIN loads
    /\ loads[k].stage = "reading"
    /\ loads' = Collect([i \in DOMAIN loads |->
                            IF i = k THEN [loads[i] EXCEPT !.stage = "decoding"]
                            ELSE IF i = transformControlsRef
                            THEN [loads[i] EXCEPT !.ctlDisposed = TRUE]
                            ELSE loads[i]],
                         k, modelRef, transformControlsRef)
    /\ sceneRef' = k
    /\ orbitEnabled' = TRUE
    /\ dragging' = FALSE
    /\ background' = "white"
    /\ gridShown' = FALSE
    /\ UNCHANGED <<darkMode, gridVisible, ctlVisible, thumbnailDataUrl, isAnalyzing,
                   alertText>>
    /\ UNCHANGED <<file, targetHeight, scaleFactor, transformMode, transformModeRef,
                   manualPositionSet, manualPositionSetRef, modelRef, transformControlsRef,
                   originalBBoxRef, isUploading, uploadPc, exported, uploadResult, catalog,
                   nMoves>>
    /\ UNCHANGED <<editVars, bulkVars, cropVars, matVars, formVars, queueVars>>

\* the loader.load callback: keep the model and its load-time bounds, normalize it,
\* add it to the callback's scene, attach a new widget in rotate mode
LoaderCallback(k) ==
    /\ Responsive
    /\ k \in DOMAIN loads
    /\ loads[k].stage = "decoding"
    /\ modelRef' = k
    /\ originalBBoxRef' = SetFromObject(loads[k].content)
    /\ loads' = Collect([loads EXCEPT ![k] = [@ EXCEPT !.stage = "loaded",
                                                        !.model = Normalize(loads[k].content),
                                                        !.ctlMode = "rotate",
                                                        !.ctlDisposed = FALSE]],
                         sceneRef, k, k)
    /\ transformControlsRef' = k
    /\ ctlVisible' = TRUE
    /\ UNCHANGED <<darkMode, gridVisible, background, gridShown, thumbnailDataUrl,
                   isAnalyzing, alertText>>
    /\ UNCHANGED <<file, targetHeight, scaleFactor, transformMode, transformModeRef,
                   manualPositionSet, manualPositionSetRef, sceneRef, dragging, orbitEnabled,
                   isUploading, uploadPc, exported, uploadResult, catalog, nMoves>>
    /\ UNCHANGED <<editVars, bulkVars, cropVars, matVars, formVars, queueVars>>

\* the decode fails: loader.load was given no error callback, so nothing is updated
LoaderError(k) ==
    /\ Responsive
    /\ k \in DOMAIN loads
    /\ loads[k].stage = "decoding"
    /\ loads' = Collect([loads EXCEPT ![k] = [@ EXCEPT !.stage = "failed"]],
                         sceneRef, modelRef, transformControlsRef)
    /\ UNCHANGED <<file, targetHeight, scaleFactor, transformMode, transformModeRef,
                   manualPositionSet, manualPositionSetRef, sceneRef, modelRef,
                   transformControlsRef, originalBBoxRef, dragging, orbitEnabled,
                   isUploading, uploadPc, exported, uploadResult, catalog, nMoves>>
    /\ UNCHANGED <<viewVars, editVars, bulkVars, cropVars, matVars, formVars, queueVars>>

----------------------------------------------------------------------------
(* Target height and transform mode *)

\* Number(e.target.value) of the height input's text
NumberOf(text) == CASE text = "100" -> 100 [] text = "0" -> 0

\* the effect on [targetHeight]
ScaleFactorEffect(h, bbox) ==
    IF h # "" /\ NumberOf(h) # 0 /\ bbox # NULL
    THEN RDiv(Q(NumberOf(h)), RSub(bbox.max[2], bbox.min[2]))
    ELSE NULL

\* the height input's onChange with a new value, and the effect it triggers
SetTargetHeight(h) ==
    /\ Responsive
    /\ h # targetHeight
    /\ targetHeight' = h
    /\ scaleFactor' = ScaleFactorEffect(h, originalBBoxRef)
    /\ UNCHANGED <<file, transformMode, transformModeRef, manualPositionSet,
                   manualPositionSetRef, loads, sceneRef, modelRef, transformControlsRef,
                   originalBBoxRef, dragging, orbitEnabled, isUploading, uploadPc, exported,
                   uploadResult, catalog, nMoves>>
    /\ UNCHANGED <<viewVars, editVars, bulkVars, cropVars, matVars, formVars, queueVars>>

\* a mode switch that would also clear manualPositionOverride
SetTransformModeResetting(mode) ==
    /\ Responsive
    /\ file # NoFile
    /\ mode # transformMode
    /\ transformMode' = mode
    /\ loads' = [i \in DOMAIN loads |->
                    IF i = transformControlsRef THEN [loads[i] EXCEPT !.ctlMode = mode]
                    ELSE loads[i]]
    /\ transformModeRef' = mode
    /\ manualPositionSet' = FALSE
    /\ manualPositionSetRef' = FALSE
    /\ UNCHANGED <<file, targetHeight, scaleFactor, sceneRef, modelRef,
                   transformControlsRef, originalBBoxRef, dragging, orbitEnabled,
                   isUploading, uploadPc, exported, uploadResult, catalog, nMoves>>
    /\ UNCHANGED <<viewVars, editVars, bulkVars, cropVars, matVars, formVars, queueVars>>

\* a mode button's onClick with a new mode, and the effect on [transformMode]
SetTransformMode(mode) ==
    /\ Responsive
    /\ file # NoFile
    /\ mode # transformMode
    /\ transformMode' = mode
    /\ loads' = [i \in DOMAIN loads |->
                    IF i = transformControlsRef THEN [loads[i] EXCEPT !.ctlMode = mode]
                    ELSE loads[i]]
    /\ transformModeRef' = mode
    /\ UNCHANGED <<file, targetHeight, scaleFactor, manualPositionSet, manualPositionSetRef,
                   sceneRef, modelRef, transformControlsRef, originalBBoxRef, dragging,
                   orbitEnabled, isUploading, uploadPc, exported, uploadResult, catalog,
                   nMoves>>
    /\ UNCHANGED <<viewVars, editVars, bulkVars, cropVars, matVars, formVars, queueVars>>

----------------------------------------------------------------------------
(* The transform widget of the displayed scene *)

\* the displayed scene has a model with a live widget
WidgetLive == sceneRef # 0 /\ loads[sceneRef].stage = "loaded" /\ ~loads[sceneRef].ctlDisposed

\* what a pointer move does to the attached model in the widget's own mode
Dragged(m, mode, d) ==
    CASE mode = "translate" -> [m EXCEPT !.position = VAdd(m.position, d)]
      [] mode = "rotate" -> [m EXCEPT !.rotation = RotMul(d, m.rotation)]
      [] mode = "scale" -> [m EXCEPT !.scale = <<RMul(m.scale[1], d[1]), RMul(m.scale[2], d[2]),
                                                 RMul(m.scale[3], d[3])>>]

DragInputs(mode) ==
    CASE mode = "translate" -> TranslateDrags
      [] mode = "rotate" -> RotateDrags
      [] mode = "scale" -> ScaleDrags

\* a drag start that would leave the camera orbit enabled
DragStartOrbitKept ==
    /\ Responsive
    /\ WidgetLive
    /\ ~dragging
    /\ dragging' = TRUE
    /\ UNCHANGED orbitEnabled
    /\ UNCHANGED <<file, targetHeight, scaleFactor, transformMode, transformModeRef,
                   manualPositionSet, manualPositionSetRef, loads, sceneRef, modelRef,
                   transformControlsRef, originalBBoxRef, isUploading, uploadPc, exported,
                   uploadResult, catalog, nMoves>>
    /\ UNCHANGED <<viewVars, editVars, bulkVars, cropVars, matVars, formVars, queueVars>>

\* 'dragging-changed' with value true
DragStart ==
    /\ Responsive
    /\ WidgetLive
    /\ ~dragging
    /\ dragging' = TRUE
    /\ orbitEnabled' = FALSE
    /\ UNCHANGED <<file, targetHeight, scaleFactor, transformMode, transformModeRef,
                   manualPositionSet, manualPositionSetRef, loads, sceneRef, modelRef,
                   transformControlsRef, originalBBoxRef, isUploading, uploadPc, exported,
                   uploadResult, catalog, nMoves>>
    /\ UNCHANGED <<viewVars, editVars, bulkVars, cropVars, matVars, formVars, queueVars>>

\* a pointer move while dragging: the widget changes the attached model
\* (at most limit moves in one behaviour)
PointerMove(limit) ==
    /\ Responsive
    /\ WidgetLive
    /\ dragging
    /\ nMoves < limit
    /\ \E d \in DragInputs(loads[sceneRef].ctlMode) :
          loads' = [loads EXCEPT ![sceneRef] =
                       [@ EXCEPT !.model = Dragged(@, loads[sceneRef].ctlMode, d)]]
    /\ nMoves' = nMoves + 1
    /\ UNCHANGED <<file, targetHeight, scaleFactor, transformMode, transformModeRef,
                   manualPositionSet, manualPositionSetRef, sceneRef, modelRef,
                   transformControlsRef, originalBBoxRef, dragging, orbitEnabled, isUploading,
                   uploadPc, exported, uploadResult, catalog>>
    /\ UNCHANGED <<viewVars, editVars, bulkVars, cropVars, matVars, formVars, queueVars>>

DragMove == PointerMove(MaxMoves)

\* a handler that snaps after every drag
SkipSnapNever(manual, mode) == FALSE

\* a handler that skips the snap whenever the manual flag is set, whatever the mode
SkipSnapWhenManual(manual, mode) == manual

\* skipSnap of the dragging-changed handler
SkipSnap(manual, mode) == manual /\ mode = "translate"

\* 'dragging-changed' with value false
DragEnd ==
    /\ Responsive
    /\ WidgetLive
    /\ dragging
    /\ dragging' = FALSE
    /\ orbitEnabled' = TRUE
    /\ manualPositionSetRef' = (IF transformModeRef = "translate" THEN TRUE ELSE manualPositionSetRef)
    /\ manualPositionSet' = (IF transformModeRef = "translate" THEN TRUE ELSE manualPositionSet)
    /\ loads' = [loads EXCEPT ![sceneRef] =
                    [@ EXCEPT !.model = SnapToGround(@, SkipSnap(manualPositionSetRef', transformModeRef))]]
    /\ UNCHANGED <<file, targetHeight, scaleFactor, transformMode, transformModeRef, sceneRef,
                   modelRef, transformControlsRef, originalBBoxRef, isUploading, uploadPc,
                   exported, uploadResult, catalog, nMoves>>
    /\ UNCHANGED <<viewVars, editVars, bulkVars, cropVars, matVars, formVars, queueVars>>

\* the Snap button, shown while manualPositionSet
SnapButton ==
    /\ Responsive
    /\ file # NoFile
    /\ manualPositionSet
    /\ manualPositionSet' = FALSE
    /\ manualPositionSetRef' = FALSE
    /\ loads' = [i \in DOMAIN loads |->
                    IF i = modelRef THEN [loads[i] EXCEPT !.model = SnapToGround(@, FALSE)]
                    ELSE loads[i]]
    /\ UNCHANGED <<file, targetHeight, scaleFactor, transformMode, transformModeRef, sceneRef,
                   modelRef, transformControlsRef, originalBBoxRef, dragging, orbitEnabled,
                   isUploading, uploadPc, exported, uploadResult, catalog, nMoves>>
    /\ UNCHANGED <<viewVars, editVars, bulkVars, cropVars, matVars, formVars, queueVars>>

----------------------------------------------------------------------------
(* The edit modal: its viewer effect, its widget and its buttons *)

\* the Edit button of a catalog item: setEditingItem(item), and the edit viewer
\* effect up to loader.load: dispose the widget editTransformControlsRef holds,
\* build a new scene, start the decode of the item's file
OpenEdit(item) ==
    /\ Responsive
    /\ editOrbitEnabled' = TRUE
    /\ editingItem = NoFile
    /\ Len(editLoads) < MaxEdits
    /\ editingItem' = item
    /\ editLoads' = Collect(Append([i \in DOMAIN editLoads |->
                                       IF i = editTransformControlsRef
                                       THEN [editLoads[i] EXCEPT !.ctlDisposed = TRUE]
                                       ELSE editLoads[i]],
                                   [NewLoad(item, Content(item)) EXCEPT !.stage = "decoding"]),
                            Len(editLoads) + 1, editModelRef, editTransformControlsRef)
    /\ editSceneRef' = Len(editLoads) + 1
    /\ editBackground' = "white"
    /\ editDragging' = FALSE
    /\ editThumbnail' = NULL
    /\ UNCHANGED <<editModelRef, editTransformControlsRef, editTransformMode,
                   editTransformModeRef, editManualPositionSet, editManualPositionSetRef,
                   editCtlVisible>>
    /\ UNCHANGED <<uploadVars, viewVars, bulkVars, cropVars, matVars, formVars, queueVars>>

\* the close button, Cancel, updateItem or deleteItem: setEditingItem(null), and the
\* cleanup of the edit viewer effect
CloseEdit ==
    /\ Responsive
    /\ editOrbitEnabled' = TRUE
    /\ editingItem # NoFile
    /\ editingItem' = NoFile
    /\ editLoads' = Collect([i \in DOMAIN editLoads |->
                                IF i = editTransformControlsRef
                                THEN [editLoads[i] EXCEPT !.ctlDisposed = TRUE]
                                ELSE editLoads[i]], 0, 0, 0)
    /\ editSceneRef' = 0
    /\ editModelRef' = 0
    /\ editTransformControlsRef' = 0
    /\ editDragging' = FALSE
    /\ editBackground' = "null"
    /\ editCtlVisible' = TRUE
    /\ editThumbnail' = NULL
    /\ UNCHANGED <<editTransformMode, editTransformModeRef, editManualPositionSet,
                   editManualPositionSetRef>>
    /\ UNCHANGED <<uploadVars, viewVars, bulkVars, cropVars, matVars, formVars, queueVars>>

\* the loader.load callback of the edit viewer effect
EditLoaderCallback(k) ==
    /\ Responsive
    /\ UNCHANGED editOrbitEnabled
    /\ k \in DOMAIN editLoads
    /\ editLoads[k].stage = "decoding"
    /\ editModelRef' = k
    /\ editTransformControlsRef' = k
    /\ editLoads' = Collect([editLoads EXCEPT ![k] =
                                [@ EXCEPT !.stage = "loaded",
                                          !.model = Normalize(editLoads[k].content),
                                          !.ctlMode = editTransformModeRef,
                                          !.ctlDisposed = FALSE]],
                            editSceneRef, k, k)
    /\ editCtlVisible' = TRUE
    /\ UNCHANGED <<editingItem, editSceneRef, editTransformMode, editTransformModeRef,
                   editManualPositionSet, editManualPositionSetRef, editDragging,
                   editBackground, editThumbnail>>
    /\ UNCHANGED <<uploadVars, viewVars, bulkVars, cropVars, matVars, formVars, queueVars>>

\* a mode button of the edit modal with a new mode, and the effect on [editTransformMode]
SetEditTransformMode(mode) ==
    /\ Responsive
    /\ UNCHANGED editOrbitEnabled
    /\ editingItem # NoFile
    /\ mode # editTransformMode
    /\ editTransformMode' = mode
    /\ editTransformModeRef' = mode
    /\ editLoads' = [i \in DOMAIN editLoads |->
                        IF i = editTransformControlsRef THEN [editLoads[i] EXCEPT !.ctlMode = mode]
                        ELSE editLoads[i]]
    /\ UNCHANGED <<editingItem, editSceneRef, editModelRef, editTransformControlsRef,
                   editManualPositionSet, editManualPositionSetRef, editDragging,
                   editBackground, editCtlVisible, editThumbnail>>
    /\ UNCHANGED <<uploadVars, viewVars, bulkVars, cropVars, matVars, formVars, queueVars>>

\* the edit scene on display has a model with a live widget
EditWidgetLive ==
    /\ editingItem # NoFile
    /\ editSceneRef \in DOMAIN editLoads
    /\ editLoads[editSceneRef].stage = "loaded"
    /\ ~editLoads[editSceneRef].ctlDisposed

\* 'dragging-changed' with value true in the edit scene
EditDragStart ==
    /\ Responsive
    /\ editOrbitEnabled' = FALSE
    /\ EditWidgetLive
    /\ ~editDragging
    /\ editDragging' = TRUE
    /\ UNCHANGED <<editingItem, editLoads, editSceneRef, editModelRef,
                   editTransformControlsRef, editTransformMode, editTransformModeRef,
                   editManualPositionSet, editManualPositionSetRef, editBackground,
                   editCtlVisible, editThumbnail, nMoves>>
    /\ UNCHANGED <<file, targetHeight, scaleFactor, transformMode, transformModeRef,
                   manualPositionSet, manualPositionSetRef, loads, sceneRef, modelRef,
                   transformControlsRef, originalBBoxRef, dragging, orbitEnabled, isUploading,
                   uploadPc, exported, uploadResult, catalog>>
    /\ UNCHANGED <<viewVars, bulkVars, cropVars, matVars, formVars, queueVars>>

\* a pointer move while dragging in the edit scene (at most limit moves in one behaviour)
EditPointerMove(limit) ==
    /\ Responsive
    /\ UNCHANGED editOrbitEnabled
    /\ EditWidgetLive
    /\ editDragging
    /\ nMoves < limit
    /\ \E d \in DragInputs(editLoads[editSceneRef].ctlMode) :
          editLoads' = [editLoads EXCEPT ![editSceneRef] =
                           [@ EXCEPT !.model = Dragged(@, editLoads[editSceneRef].ctlMode, d)]]
    /\ nMoves' = nMoves + 1
    /\ UNCHANGED <<editingItem, editSceneRef, editModelRef, editTransformControlsRef,
                   editTransformMode, editTransformModeRef, editManualPositionSet,
                   editManualPositionSetRef, editDragging, editBackground, editCtlVisible,
                   editThumbnail>>
    /\ UNCHANGED <<file, targetHeight, scaleFactor, transformMode, transformModeRef,
                   manualPositionSet, manualPositionSetRef, loads, sceneRef, modelRef,
                   transformControlsRef, originalBBoxRef, dragging, orbitEnabled, isUploading,
                   uploadPc, exported, uploadResult, catalog>>
    /\ UNCHANGED <<viewVars, bulkVars, cropVars, matVars, formVars, queueVars>>

\* 'dragging-changed' with value false in the edit scene
EditDragEnd ==
    /\ Responsive
    /\ editOrbitEnabled' = TRUE
    /\ EditWidgetLive
    /\ editDragging
    /\ editDragging' = FALSE
    /\ editManualPositionSetRef' =
          (IF editTransformModeRef = "translate" THEN TRUE ELSE editManualPositionSetRef)
    /\ editManualPositionSet' =
          (IF editTransformModeRef = "translate" THEN TRUE ELSE editManualPositionSet)
    /\ editLoads' = [editLoads EXCEPT ![editSceneRef] =
                        [@ EXCEPT !.model =
                            SnapToGround(@, SkipSnap(editManualPositionSetRef',
                                                     editTransformModeRef))]]
    /\ UNCHANGED <<editingItem, editSceneRef, editModelRef, editTransformControlsRef,
                   editTransformMode, editTransformModeRef, editBackground, editCtlVisible,
                   editThumbnail>>
    /\ UNCHANGED <<uploadVars, viewVars, bulkVars, cropVars, matVars, formVars, queueVars>>

\* the Snap button of the edit modal, shown while editManualPositionSet; its onClick
\* does not assign editManualPositionSetRef.current
EditSnapButton ==
    /\ Responsive
    /\ UNCHANGED editOrbitEnabled
    /\ editingItem # NoFile
    /\ editManualPositionSet
    /\ editManualPositionSet' = FALSE
    /\ editLoads' = [i \in DOMAIN editLoads |->
                        IF i = editModelRef
                        THEN [editLoads[i] EXCEPT !.model = SnapToGround(@, FALSE)]
                        ELSE editLoads[i]]
    /\ UNCHANGED <<editingItem, editSceneRef, editModelRef, editTransformControlsRef,
                   editTransformMode, editTransformModeRef, editManualPositionSetRef,
                   editDragging, editBackground, editCtlVisible, editThumbnail>>
    /\ UNCHANGED <<uploadVars, viewVars, bulkVars, cropVars, matVars, formVars, queueVars>>

----------------------------------------------------------------------------
(* The viewport: dark mode, grid, thumbnail capture, analysis *)

\* the color the [darkMode, gridVisible] effect gives the scene background
BackgroundOf(dark) == IF dark THEN "black" ELSE "white"

\* the dark-mode button: setDarkMode(!darkMode) and the [darkMode, gridVisible] effect,
\* which recolors the scene of sceneRef and replaces its grid
ToggleDarkMode ==
    /\ Responsive
    /\ darkMode' = ~darkMode
    /\ background' = (IF sceneRef # 0 THEN BackgroundOf(darkMode') ELSE background)
    /\ gridShown' = (IF sceneRef # 0 THEN gridVisible ELSE gridShown)
    /\ UNCHANGED <<gridVisible, ctlVisible, thumbnailDataUrl, isAnalyzing, alertText>>
    /\ UNCHANGED <<uploadVars, editVars, bulkVars, cropVars, matVars, formVars, queueVars>>

\* the grid button: setGridVisible(!gridVisible), the [gridVisible] effect and the
\* [darkMode, gridVisible] effect
ToggleGrid ==
    /\ Responsive
    /\ gridVisible' = ~gridVisible
    /\ gridShown' = (IF sceneRef # 0 THEN gridVisible' ELSE gridShown)
    /\ background' = (IF sceneRef # 0 THEN BackgroundOf(darkMode) ELSE background)
    /\ UNCHANGED <<darkMode, ctlVisible, thumbnailDataUrl, isAnalyzing, alertText>>
    /\ UNCHANGED <<uploadVars, editVars, bulkVars, cropVars, matVars, formVars, queueVars>>

\* what renderer.render draws of the scene state: its background, and whether the
\* grid and the transform widget are visible in it
RenderFrame(bg, grid, widget) == [background |-> bg, grid |-> grid, widget |-> widget]

\* a restore that leaves the background as the capture set it
RestoreBackgroundForgotten(saved, current) == current

\* sceneRef.current.background = originalBackground
RestoreBackground(saved, current) == saved

\* captureThumbnail() on a scene whose background is bg, whose grid's visible is grid,
\* with a widget or not (hasCtl) whose visible is ctl: the scene state it leaves and
\* the frame it rendered for the thumbnail
CaptureThumbnail(bg, grid, ctl, hasCtl) ==
    LET originalBackground == bg
        ctlHidden == IF hasCtl THEN FALSE ELSE ctl
        gridWasVisible == grid
        frame == RenderFrame("null", FALSE, hasCtl /\ ctlHidden)
    IN  [background |-> RestoreBackground(originalBackground, "null"),
         gridShown |-> gridWasVisible,
         ctlVisible |-> IF hasCtl THEN TRUE ELSE ctlHidden,
         thumbnail |-> frame]

\* the Capture button of the upload form: captureThumbnail(), setThumbnailDataUrl
CaptureButton ==
    /\ Responsive
    /\ sceneRef # 0
    /\ LET c == CaptureThumbnail(background, gridShown, ctlVisible, transformControlsRef # 0)
       IN  /\ background' = c.background
           /\ gridShown' = c.gridShown
           /\ ctlVisible' = c.ctlVisible
           /\ thumbnailDataUrl' = c.thumbnail
    /\ UNCHANGED <<darkMode, gridVisible, isAnalyzing, alertText>>
    /\ UNCHANGED <<uploadVars, editVars, bulkVars, cropVars, matVars, formVars, queueVars>>

\* analyzeWithAI up to the await of fetch: captureThumbnail, then the full screenshot
\* with the widget hidden and shown again
AnalyzeStart ==
    /\ Responsive
    /\ sceneRef # 0
    /\ ~isAnalyzing
    /\ isAnalyzing' = TRUE
    /\ LET c == CaptureThumbnail(background, gridShown, ctlVisible, transformControlsRef # 0)
       IN  /\ background' = c.background
           /\ gridShown' = c.gridShown
           /\ ctlVisible' = (IF transformControlsRef # 0 THEN TRUE ELSE c.ctlVisible)
           /\ thumbnailDataUrl' = c.thumbnail
    /\ analysisOf' = Len(loads)
    /\ UNCHANGED <<objectName, tags, category, aiDescription, renderError>>
    /\ UNCHANGED <<darkMode, gridVisible, alertText>>
    /\ UNCHANGED <<uploadVars, editVars, bulkVars, cropVars, matVars, queueVars>>

\* a response body: name, heightMm, category and description are "" when absent
\* or falsy; tags is absent, an array, or a value that cannot be spread
Body(name, heightMm, tagsKind, tagItems, cat, description) ==
    [name |-> name, heightMm |-> heightMm,
     tags |-> [kind |-> tagsKind, items |-> tagItems],
     category |-> cat, description |-> description]

\* a body with nothing but a height ("" for none)
HeightOnly(h) == Body("", h, "absent", <<>>, "", "")

\* the route's answer with all its fields
FullBody == Body("Chair", "100", "array", <<"wood">>, "furniture/chairs", "A chair")

\* the route's error answer { error, details }: none of the fields
ErrorBody == Body("", "", "absent", <<>>, "", "")

\* an answer whose tags is a number
BadTagsBody == Body("Chair", "100", "number", <<>>, "furniture/chairs", "A chair")

Bodies == {FullBody, ErrorBody, BadTagsBody} \cup {HeightOnly(h) : h \in Heights}

\* Array.from(new Set([...prev, ...more]))
RECURSIVE MergeTags(_, _)
MergeTags(prev, more) ==
    IF more = <<>> THEN prev
    ELSE IF \E i \in DOMAIN prev : prev[i] = Head(more) THEN MergeTags(prev, Tail(more))
    ELSE MergeTags(Append(prev, Head(more)), Tail(more))

\* response.json() has resolved with data: each field that is there is set; the
\* updater given to setTags runs when the component renders next, and spreading a
\* data.tags that is not iterable throws there, outside the try block; the
\* [targetHeight] effect; finally
AnalyzeResponse(data) ==
    /\ Responsive
    /\ isAnalyzing
    /\ isAnalyzing' = FALSE
    /\ objectName' = (IF data.name # "" THEN data.name ELSE objectName)
    /\ targetHeight' = (IF data.heightMm # "" THEN data.heightMm ELSE targetHeight)
    /\ scaleFactor' = (IF data.heightMm # "" /\ data.heightMm # targetHeight
                       THEN ScaleFactorEffect(data.heightMm, originalBBoxRef)
                       ELSE scaleFactor)
    /\ tags' = (IF data.tags.kind = "array" THEN MergeTags(tags, data.tags.items)
                ELSE tags)
    /\ renderError' = (data.tags.kind = "number")
    /\ category' = (IF data.category # "" THEN data.category ELSE category)
    /\ aiDescription' = (IF data.description # "" THEN data.description
                         ELSE aiDescription)
    /\ analysisOf' = 0
    /\ UNCHANGED <<file, transformMode, transformModeRef, manualPositionSet,
                   manualPositionSetRef, loads, sceneRef, modelRef, transformControlsRef,
                   originalBBoxRef, dragging, orbitEnabled, isUploading, uploadPc,
                   exported, uploadResult, catalog, nMoves>>
    /\ UNCHANGED <<darkMode, gridVisible, background, gridShown, ctlVisible,
                   thumbnailDataUrl, alertText>>
    /\ UNCHANGED <<editVars, bulkVars, cropVars, matVars, queueVars>>

\* the analysis answers with a suggested height h ("" for none) and nothing else
AnalyzeDone(h) == AnalyzeResponse(HeightOnly(h))

\* the analysis request fails: catch (console.error), finally
AnalyzeFail ==
    /\ Responsive
    /\ isAnalyzing
    /\ isAnalyzing' = FALSE
    /\ analysisOf' = 0
    /\ UNCHANGED <<objectName, tags, category, aiDescription, renderError>>
    /\ UNCHANGED <<darkMode, gridVisible, background, gridShown, ctlVisible, thumbnailDataUrl,
                   alertText>>
    /\ UNCHANGED <<uploadVars, editVars, bulkVars, cropVars, matVars, queueVars>>

\* the Capture button of the edit modal
EditCapture ==
    /\ Responsive
    /\ UNCHANGED editOrbitEnabled
    /\ editingItem # NoFile
    /\ editSceneRef # 0
    /\ LET origBg == editBackground
           hasCtl == editTransformControlsRef # 0
           ctlHidden == IF hasCtl THEN FALSE ELSE editCtlVisible
           frame == RenderFrame("null", FALSE, hasCtl /\ ctlHidden)
       IN  /\ editBackground' = RestoreBackground(origBg, "null")
           /\ editCtlVisible' = (IF hasCtl THEN TRUE ELSE ctlHidden)
           /\ editThumbnail' = frame
    /\ UNCHANGED <<editingItem, editLoads, editSceneRef, editModelRef,
                   editTransformControlsRef, editTransformMode, editTransformModeRef,
                   editManualPositionSet, editManualPositionSetRef, editDragging>>
    /\ UNCHANGED <<uploadVars, viewVars, bulkVars, cropVars, matVars, formVars, queueVars>>

\* processBulkFiles up to its loop, on a selection of n files: the off-screen
\* scene with a black background and no model
BulkStart ==
    /\ Responsive
    /\ bulkBackground = "null"
    /\ bulkBackground' = "black"
    /\ bulkThumbnail' = NULL
    /\ \E n \in 1..MaxBulkFiles : bulkFiles' = n
    /\ bulkIndex' = 1
    /\ bulkScene' = {}
    /\ bulkRendered' = NULL
    /\ UNCHANGED <<uploadVars, viewVars, editVars, cropVars, matVars, formVars, queueVars>>

\* the scene at the end of processSingleFile's loader callback: scene.remove(model)
\* is the last step of the try block and is not reached when a step before it throws
SceneRemove(scene, model, succeeded) ==
    IF succeeded THEN scene \ {model} ELSE scene

\* processSingleFile's loader callback on the file the loop is at: the model is
\* added to the scene, the thumbnail is rendered with a transparent background
\* and the background put back, the analysis screenshot is rendered; then the
\* analysis, the export, the upload and the catalogue write succeed or one throws
BulkCapture ==
    /\ Responsive
    /\ bulkBackground # "null"
    /\ bulkIndex \in 1..bulkFiles
    /\ LET originalBackground == bulkBackground
           frame == RenderFrame("null", FALSE, FALSE)
           added == bulkScene \cup {bulkIndex}
       IN  /\ bulkThumbnail' = frame
           /\ bulkBackground' = RestoreBackground(originalBackground, "null")
           /\ bulkRendered' = [file |-> bulkIndex, models |-> added]
           /\ \E succeeded \in BOOLEAN :
                  bulkScene' = SceneRemove(added, bulkIndex, succeeded)
    /\ bulkIndex' = bulkIndex + 1
    /\ UNCHANGED bulkFiles
    /\ UNCHANGED <<uploadVars, viewVars, editVars, cropVars, matVars, formVars, queueVars>>

\* processSingleFile on a file that cannot be read or decoded: reader.onerror or
\* the loader's error callback resolves the failure, no model is added
BulkSkip ==
    /\ Responsive
    /\ bulkBackground # "null"
    /\ bulkIndex \in 1..bulkFiles
    /\ bulkIndex' = bulkIndex + 1
    /\ UNCHANGED <<bulkBackground, bulkThumbnail, bulkFiles, bulkScene, bulkRendered>>
    /\ UNCHANGED <<uploadVars, viewVars, editVars, cropVars, matVars, formVars, queueVars>>

\* processBulkFiles after its loop: the renderer is disposed, the scene dropped
BulkEnd ==
    /\ Responsive
    /\ bulkBackground # "null"
    /\ bulkIndex > bulkFiles
    /\ bulkBackground' = "null"
    /\ bulkThumbnail' = NULL
    /\ bulkFiles' = 0
    /\ bulkIndex' = 0
    /\ bulkScene' = {}
    /\ bulkRendered' = NULL
    /\ UNCHANGED <<uploadVars, viewVars, editVars, cropVars, matVars, formVars, queueVars>>

NextBulk ==
    \/ BulkStart
    \/ BulkCapture
    \/ BulkSkip
    \/ BulkEnd

SpecBulk == Init /\ [][NextBulk]_vars

----------------------------------------------------------------------------
(* autoCropImage *)

\* const padding = 10
Padding == 10

\* if (alpha > 10): the alpha above which a pixel counts as content
AlphaThreshold == 10

\* a frame's sides: a renderer sized to a laid-out viewport, at least one pixel
Sides == {1, 2, MaxSide}

\* the columns (rows) where the rendered frames have their non-zero pixels: at an
\* edge, next to it, more than the padding away from both edges
Marks(side) == {0, 1, Padding + 1, side - 1} \cap (0 .. side - 1)

\* alpha of a non-zero pixel: at the threshold, just above it
Alphas == {AlphaThreshold, AlphaThreshold + 1}

\* which context the canvas was given when it was first asked for one
ContextModes == {"2d", "webgl2"}

PixelsAt(w, h) ==
    [x : Marks(w), y : Marks(h), alpha : Alphas]

\* the frames: every pixel has alpha 0 but for at most two
Frames(w, h) ==
    {{}} \cup {{p} : p \in PixelsAt(w, h)}
         \cup {{p, q} : p, q \in PixelsAt(w, h)}

SamePlace(p, q) == p.x = q.x /\ p.y = q.y

Canvases ==
    UNION {{[width |-> w, height |-> h, contextMode |-> mode, pixels |-> px] :
              px \in {f \in Frames(w, h) :
                        \A p, q \in f : SamePlace(p, q) => p = q},
              mode \in ContextModes} : w \in Sides, h \in Sides}

\* canvas.getContext('2d'): the canvas's 2d context, or null (FALSE) when the canvas
\* already has a context of another kind
GetContext2d(c) == c.contextMode = "2d"

\* data[(y * width + x) * 4 + 3]
AlphaAt(c, x, y) ==
    LET here == {p \in c.pixels : p.x = x /\ p.y = y}
    IN  IF here = {} THEN 0 ELSE (CHOOSE p \in here : TRUE).alpha

\* the body of the two for loops at pixel (x, y)
ScanPixel(c, x, y, acc) ==
    IF AlphaAt(c, x, y) > AlphaThreshold
    THEN [hasContent |-> TRUE,
          minX |-> IF x < acc.minX THEN x ELSE acc.minX,
          maxX |-> IF x > acc.maxX THEN x ELSE acc.maxX,
          minY |-> IF y < acc.minY THEN y ELSE acc.minY,
          maxY |-> IF y > acc.maxY THEN y ELSE acc.maxY]
    ELSE acc

\* for (let x = 0; x < width; x++)
RECURSIVE ScanRow(_, _, _, _)
ScanRow(c, x, y, acc) ==
    IF x < c.width
    THEN LET found == ScanPixel(c, x, y, acc)
         IN  IF found.hasContent \in BOOLEAN THEN ScanRow(c, x + 1, y, found) ELSE acc
    ELSE acc

\* for (let y = 0; y < height; y++)
RECURSIVE ScanRows(_, _, _)
ScanRows(c, y, acc) ==
    IF y < c.height
    THEN LET found == ScanRow(c, 0, y, acc)
         IN  IF found.hasContent \in BOOLEAN THEN ScanRows(c, y + 1, found) ELSE acc
    ELSE acc

\* the bounding box of the content pixels, as the loops find it
Scan(c) ==
    ScanRows(c, 0, [hasContent |-> FALSE,
                    minX |-> c.width, minY |-> c.height, maxX |-> 0, maxY |-> 0])

IntMax(a, b) == IF a > b THEN a ELSE b

IntMin(a, b) == IF a < b THEN a ELSE b

\* a fallback that would hand back an empty image
ToDataURLEmpty(c) == [left |-> 0, top |-> 0, width |-> 0, height |-> 0]

\* canvas.toDataURL('image/png'): the whole frame
ToDataURL(c) == [left |-> 0, top |-> 0, width |-> c.width, height |-> c.height]

\* autoCropImage(canvas): the part of the frame in the image it returns;
\* croppedCtx tells whether the new canvas gave a 2d context
AutoCropImage(c, croppedCtx) ==
    IF ~GetContext2d(c) THEN ToDataURL(c)
    ELSE LET found == Scan(c)
         IN  IF ~found.hasContent THEN ToDataURL(c)
             ELSE LET minX == IntMax(0, found.minX - Padding)
                      minY == IntMax(0, found.minY - Padding)
                      maxX == IntMin(c.width - 1, found.maxX + Padding)
                      maxY == IntMin(c.height - 1, found.maxY + Padding)
                      cropWidth == maxX - minX + 1
                      cropHeight == maxY - minY + 1
                  IN  IF ~croppedCtx THEN ToDataURL(c)
                      ELSE [left |-> minX, top |-> minY,
                            width |-> cropWidth, height |-> cropHeight]

\* renderer.render draws a frame into the renderer's canvas: the first one, or the
\* next one once the last thumbnail has been taken
Render(c) ==
    /\ canvas = NULL \/ cropped # NULL
    /\ canvas' = c
    /\ cropped' = NULL
    /\ UNCHANGED <<uploadVars, viewVars, editVars, bulkVars, matVars, formVars, queueVars>>

\* autoCropImage(renderer.domElement)
AutoCrop(croppedCtx) ==
    /\ canvas # NULL
    /\ cropped = NULL
    /\ cropped' = AutoCropImage(canvas, croppedCtx)
    /\ UNCHANGED canvas
    /\ UNCHANGED <<uploadVars, viewVars, editVars, bulkVars, matVars, formVars, queueVars>>

NextCrop ==
    \/ \E c \in Canvases : Render(c)
    \/ \E croppedCtx \in BOOLEAN : AutoCrop(croppedCtx)

SpecCrop == Init /\ [][NextCrop]_vars

\* the least and the greatest of a non-empty set of numbers
Least(S) == CHOOSE m \in S : \A x \in S : m <= x

Greatest(S) == CHOOSE m \in S : \A x \in S : m >= x

\* the pixels of a frame that count as content
ContentPixels(c) == {p \in c.pixels : p.alpha > AlphaThreshold}

----------------------------------------------------------------------------
(* extractMaterials *)

\* m.name of the materials of the loaded scenes
MaterialNames == {"", "Unnamed", "steel"}

\* m.color?.getHexString(): six hex digits, "undefined" for a material with no color
MaterialColors == {"undefined", "000000", "cccccc", "ff0000"}

Materials == [name : MaterialNames, color : MaterialColors]

\* mesh.material: one material, or an array of them
MeshMaterials ==
    {[isArray |-> FALSE, material |-> m] : m \in Materials}
        \cup {[isArray |-> TRUE, material |-> <<m, n>>] : m, n \in Materials}

\* a key that would leave the color out
MaterialKeyByName(m) == m.name

\* const key = `${m.name}-${m.color?.getHexString()}`
MaterialKey(m) == m.name \o "-" \o m.color

\* the MaterialInfo pushed for m (name and color of it)
MaterialInfo(m) ==
    [name |-> IF m.name # "" THEN m.name ELSE "Unnamed",
     color |-> IF m.color # "undefined" THEN "#" \o m.color ELSE "#cccccc"]

\* a palette test that would let black in
PaletteAdmitsBlack(seen, hex) == hex \notin seen

\* !colorSet.has(hex) && hex !== '#000000'
PaletteAdmits(seen, hex) == hex \notin seen /\ hex # "#000000"

\* the forEach callback on one material
VisitMaterial(m, acc) ==
    LET key == MaterialKey(m)
        afterMat == IF key \notin acc.matSet
                    THEN [acc EXCEPT !.matSet = @ \cup {key},
                                     !.mats = Append(@, MaterialInfo(m))]
                    ELSE acc
        hex == "#" \o m.color
    IN  IF m.color # "undefined" /\ PaletteAdmits(afterMat.colorSet, hex)
        THEN [afterMat EXCEPT !.colorSet = @ \cup {hex}, !.cols = Append(@, hex)]
        ELSE afterMat

\* meshMats.forEach
RECURSIVE ForEachMaterial(_, _, _)
ForEachMaterial(meshMats, i, acc) ==
    IF i <= Len(meshMats)
    THEN LET next == VisitMaterial(meshMats[i], acc)
         IN  IF next.matSet # {} THEN ForEachMaterial(meshMats, i + 1, next) ELSE acc
    ELSE acc

\* the traverse callback on a mesh
VisitMesh(mesh) ==
    LET meshMats == IF mesh.isArray THEN mesh.material ELSE <<mesh.material>>
        done == ForEachMaterial(meshMats, 1, [mats |-> mats, cols |-> cols,
                                              matSet |-> matSet, colorSet |-> colorSet])
    IN  /\ Len(traversed) + Len(meshMats) <= MaxMaterials
        /\ traversed' = traversed \o meshMats
        /\ mats' = done.mats
        /\ cols' = done.cols
        /\ matSet' = done.matSet
        /\ colorSet' = done.colorSet
        /\ UNCHANGED <<uploadVars, viewVars, editVars, bulkVars, cropVars, formVars, queueVars>>

NextMaterials == \E mesh \in MeshMaterials : VisitMesh(mesh)

SpecMaterials == Init /\ [][NextMaterials]_vars

----------------------------------------------------------------------------
\* The thumbnail generation queue of the catalogue grid (src/app/page.tsx)

MAX_CONCURRENT_GENERATORS == 2

\* a sequence without the entries equal to x (indexOf + splice on a queue that
\* holds a task at most once)
RECURSIVE Without(_, _)
Without(q, x) ==
    IF q = <<>> THEN <<>>
    ELSE IF Head(q) = x THEN Without(Tail(q), x)
    ELSE <<Head(q)>> \o Without(Tail(q), x)

\* processQueue without its guard on the slot count
ProcessQueueUnguarded(q) ==
    IF q.queue = <<>> THEN q
    ELSE [queue |-> Tail(q.queue),
          active |-> q.active + 1,
          gen |-> [q.gen EXCEPT ![Head(q.queue)] = TRUE],
          started |-> q.started \cup {Head(q.queue)}]

\* processQueue on q = [queue, active, gen, started]: gen is the isGenerating
\* state of the items, started the items whose task this call has run
ProcessQueue(q) ==
    IF q.active >= MAX_CONCURRENT_GENERATORS THEN q
    ELSE IF q.queue = <<>> THEN q
    ELSE [queue |-> Tail(q.queue),
          active |-> q.active + 1,
          gen |-> [q.gen EXCEPT ![Head(q.queue)] = TRUE],
          started |-> q.started \cup {Head(q.queue)}]

QueueNow == [queue |-> generationQueue, active |-> activeGenerators,
             gen |-> isGenerating, started |-> {}]

\* a category filter (or the loaded catalogue) brings item i into the grid: its
\* GridItem mounts and its effect pushes a task unless the item has thumbnails
Mount(i) ==
    LET q == IF hasThumbnail[i] THEN QueueNow
             ELSE ProcessQueue([QueueNow EXCEPT !.queue = Append(generationQueue, i)])
    IN  /\ ~mounted[i]
        /\ mounted' = [mounted EXCEPT ![i] = TRUE]
        /\ generationQueue' = q.queue
        /\ activeGenerators' = q.active
        /\ isGenerating' = q.gen
        /\ viewer' = [j \in Items |-> IF j \in q.started THEN "loading" ELSE viewer[j]]
        /\ UNCHANGED <<hasThumbnail, pendingCaptures>>
        /\ UNCHANGED <<uploadVars, viewVars, editVars, bulkVars, cropVars, matVars, formVars>>

\* a category filter takes item i out of the grid: the effect's cleanup splices
\* its task out of the queue, CaptureHelper's cleanup clears a pending timer;
\* a capture whose timer has fired goes on resizing
Unmount(i) ==
    /\ mounted[i]
    /\ mounted' = [mounted EXCEPT ![i] = FALSE]
    /\ generationQueue' = Without(generationQueue, i)
    /\ isGenerating' = [isGenerating EXCEPT ![i] = FALSE]
    /\ viewer' = [viewer EXCEPT ![i] = "none"]
    /\ pendingCaptures' = [pendingCaptures EXCEPT
                              ![i] = IF viewer[i] = "resizing" THEN @ + 1 ELSE @]
    /\ UNCHANGED <<activeGenerators, hasThumbnail>>
    /\ UNCHANGED <<uploadVars, viewVars, editVars, bulkVars, cropVars, matVars, formVars>>

\* useGLTF resolves: Suspense shows the model and mounts CaptureHelper
ModelLoaded(i) ==
    /\ viewer[i] = "loading"
    /\ viewer' = [viewer EXCEPT ![i] = "armed"]
    /\ UNCHANGED <<generationQueue, activeGenerators, hasThumbnail, mounted, isGenerating,
                   pendingCaptures>>
    /\ UNCHANGED <<uploadVars, viewVars, editVars, bulkVars, cropVars, matVars, formVars>>

\* useGLTF throws: ErrorBoundary shows its fallback, CaptureHelper never mounts
ModelFailed(i) ==
    /\ viewer[i] = "loading"
    /\ viewer' = [viewer EXCEPT ![i] = "failed"]
    /\ UNCHANGED <<generationQueue, activeGenerators, hasThumbnail, mounted, isGenerating,
                   pendingCaptures>>
    /\ UNCHANGED <<uploadVars, viewVars, editVars, bulkVars, cropVars, matVars, formVars>>

\* CaptureHelper's timer fires: the frame is rendered and the resizes start
TimerFires(i) ==
    /\ viewer[i] = "armed"
    /\ viewer' = [viewer EXCEPT ![i] = "resizing"]
    /\ UNCHANGED <<generationQueue, activeGenerators, hasThumbnail, mounted, isGenerating,
                   pendingCaptures>>
    /\ UNCHANGED <<uploadVars, viewVars, editVars, bulkVars, cropVars, matVars, formVars>>

\* handleCapture of the mounted GridItem of item i
HandleCapture(i) ==
    LET q == ProcessQueue([QueueNow EXCEPT !.active = activeGenerators - 1])
    IN  /\ viewer[i] = "resizing"
        /\ generationQueue' = q.queue
        /\ activeGenerators' = q.active
        /\ isGenerating' = [q.gen EXCEPT ![i] = FALSE]
        /\ hasThumbnail' = [hasThumbnail EXCEPT ![i] = TRUE]
        /\ viewer' = [j \in Items |-> IF j = i THEN "none"
                                      ELSE IF j \in q.started THEN "loading"
                                      ELSE viewer[j]]
        /\ UNCHANGED <<mounted, pendingCaptures>>
        /\ UNCHANGED <<uploadVars, viewVars, editVars, bulkVars, cropVars, matVars, formVars>>

\* handleCapture of a GridItem of item i that was unmounted while its capture was
\* resizing: setIsGenerating(false) meets no component; the item gets its
\* thumbnails, so a GridItem of i mounted since drops its queued task and no
\* longer renders its capture viewer
LateCapture(i) ==
    LET q == ProcessQueue([QueueNow EXCEPT !.active = activeGenerators - 1])
    IN  /\ pendingCaptures[i] > 0
        /\ pendingCaptures' = [pendingCaptures EXCEPT ![i] = @ - 1]
        /\ generationQueue' = Without(q.queue, i)
        /\ activeGenerators' = q.active
        /\ isGenerating' = q.gen
        /\ hasThumbnail' = [hasThumbnail EXCEPT ![i] = TRUE]
        /\ viewer' = [j \in Items |-> IF j = i
                                      THEN (IF viewer[i] = "resizing" THEN "resizing" ELSE "none")
                                      ELSE IF j \in q.started THEN "loading"
                                      ELSE viewer[j]]
        /\ UNCHANGED mounted
        /\ UNCHANGED <<uploadVars, viewVars, editVars, bulkVars, cropVars, matVars, formVars>>

NextQueue ==
    \/ \E i \in Items : Mount(i)
    \/ \E i \in Items : Unmount(i)
    \/ \E i \in Items : ModelLoaded(i)
    \/ \E i \in Items : ModelFailed(i)
    \/ \E i \in Items : TimerFires(i)
    \/ \E i \in Items : HandleCapture(i)
    \/ \E i \in Items : LateCapture(i)

SpecQueue == Init /\ [][NextQueue]_vars

Generating == {i \in Items : isGenerating[i]}

\* '#' + getHexString() of the traversed materials that have a color
RECURSIVE TraversedColors(_)
TraversedColors(s) ==
    IF s = <<>> THEN <<>>
    ELSE IF Head(s).color # "undefined" THEN <<"#" \o Head(s).color>> \o TraversedColors(Tail(s))
    ELSE TraversedColors(Tail(s))

\* the places of a sequence where its entry occurs for the first time
FirstPlaces(s) == {i \in DOMAIN s : \A j \in 1 .. i - 1 : s[j] # s[i]}

\* the entries of a sequence at the places P, in order; n is Len(s)
RECURSIVE Pick(_, _, _)
Pick(s, P, i) ==
    IF i > Len(s) THEN <<>>
    ELSE IF i \in P THEN <<s[i]>> \o Pick(s, P, i + 1)
    ELSE Pick(s, P, i + 1)

----------------------------------------------------------------------------
(* Export *)

\* a bake that keeps the geometry object the clone shares with the live mesh
GeometryCloneShared(g) == g

\* BufferGeometry.clone(): a new geometry object, never the one it was cloned from
GeometryClone(g) == "exportGeometry"

(***************************************************************************)
(* The baking loop of handleUpload on the clone of model m.  Object3D.clone *)
(* copies every node's transform and shares the geometry object, so the    *)
(* geometries are kept in a store by identity: the live mesh's is          *)
(* "liveGeometry", and the clone's mesh refers to it until it is given its *)
(* own.  The result is the store after applyMatrix4.                       *)
(***************************************************************************)
BakeGeometry(m) ==
    LET shared == "liveGeometry"
        own == GeometryClone(shared)
        store == [g \in {shared, own} |-> m.geometry]
    IN  [g \in {shared, own} |->
            IF g = own THEN GeometryApplyMatrix4(store[g], MeshMatrixWorld(m)) ELSE store[g]]

\* the clone after the baking loop and the reset of the root's transform: the mesh
\* and the root are at identity, the nodes between them keep their transforms
BakedScene(m) ==
    Model(IdentityTRS, m.group, IdentityTRS, BakeGeometry(m)[GeometryClone("liveGeometry")])

\* the scale handleUpload divides the scale factor by: the live model's scale.x
CurrentScale(m) == m.scale[1]

\* finalScale = scaleFactor / currentScale.x
FinalScale(sf, m) == RDiv(sf, CurrentScale(m))

\* the export scene handed to the exporter
ExportScene(m, sf, bbox) ==
    IF Truthy(sf) /\ bbox # NULL
    THEN [BakedScene(m) EXCEPT !.scale = SetScalar(FinalScale(sf, m))]
    ELSE BakedScene(m)

\* handleUpload up to the await of exporter.parse
HandleUpload ==
    /\ Responsive
    /\ file # NoFile
    /\ modelRef # 0
    /\ ~isUploading
    /\ Len(catalog) < MaxUploads
    /\ isUploading' = TRUE
    /\ uploadPc' = "serializing"
    /\ LET m == loads[modelRef].model
       IN  /\ exported' = [clone |-> m,
                           baked |-> BakedScene(m),
                           scene |-> ExportScene(m, scaleFactor, originalBBoxRef),
                           file |-> file,
                           targetHeight |-> targetHeight,
                           scaleFactor |-> scaleFactor]
           /\ loads' = [loads EXCEPT ![modelRef] =
                           [@ EXCEPT !.model = [m EXCEPT !.geometry = BakeGeometry(m)["liveGeometry"]]]]
    /\ UNCHANGED <<file, targetHeight, scaleFactor, transformMode, transformModeRef,
                   manualPositionSet, manualPositionSetRef, sceneRef, modelRef,
                   transformControlsRef, originalBBoxRef, dragging, orbitEnabled, uploadResult,
                   catalog, nMoves>>
    /\ UNCHANGED <<viewVars, editVars, bulkVars, cropVars, matVars, formVars, queueVars>>

\* exporter.parse resolves: handleUpload goes on to the storage upload
SerializeDone ==
    /\ uploadPc = "serializing"
    /\ uploadPc' = "uploading"
    /\ UNCHANGED <<file, targetHeight, scaleFactor, transformMode, transformModeRef,
                   manualPositionSet, manualPositionSetRef, loads, sceneRef, modelRef,
                   transformControlsRef, originalBBoxRef, dragging, orbitEnabled, isUploading,
                   exported, uploadResult, catalog, nMoves>>
    /\ UNCHANGED <<viewVars, editVars, bulkVars, cropVars, matVars, formVars, queueVars>>

\* a failure handler that would record the upload as done all the same
UploadFailRecorded ==
    /\ uploadPc \in {"serializing", "uploading"}
    /\ uploadPc' = "alert"
    /\ alertText' = [message |-> "Upload failed", cause |-> uploadPc]
    /\ uploadResult' = [pathname |-> exported.file]
    /\ UNCHANGED <<file, targetHeight, scaleFactor, transformMode, transformModeRef,
                   manualPositionSet, manualPositionSetRef, loads, sceneRef, modelRef,
                   transformControlsRef, originalBBoxRef, dragging, orbitEnabled, isUploading,
                   exported, catalog, nMoves>>
    /\ UNCHANGED <<darkMode, gridVisible, background, gridShown, ctlVisible, thumbnailDataUrl,
                   isAnalyzing>>
    /\ UNCHANGED <<editVars, bulkVars, cropVars, matVars, formVars, queueVars>>

\* exporter.parse or upload rejects: catch, alert(`Upload failed: ${err}`) is showing
UploadFail ==
    /\ uploadPc \in {"serializing", "uploading"}
    /\ uploadPc' = "alert"
    /\ alertText' = [message |-> "Upload failed", cause |-> uploadPc]
    /\ UNCHANGED <<file, targetHeight, scaleFactor, transformMode, transformModeRef,
                   manualPositionSet, manualPositionSetRef, loads, sceneRef, modelRef,
                   transformControlsRef, originalBBoxRef, dragging, orbitEnabled, isUploading,
                   exported, uploadResult, catalog, nMoves>>
    /\ UNCHANGED <<darkMode, gridVisible, background, gridShown, ctlVisible, thumbnailDataUrl,
                   isAnalyzing>>
    /\ UNCHANGED <<editVars, bulkVars, cropVars, matVars, formVars, queueVars>>

\* upload resolves and setUploadResult runs, then reading or writing the catalog in
\* localStorage throws: catch, the alert is showing
CatalogFail ==
    /\ uploadPc = "uploading"
    /\ uploadPc' = "alert"
    /\ uploadResult' = [pathname |-> exported.file]
    /\ alertText' = [message |-> "Upload failed", cause |-> "catalog"]
    /\ UNCHANGED <<file, targetHeight, scaleFactor, transformMode, transformModeRef,
                   manualPositionSet, manualPositionSetRef, loads, sceneRef, modelRef,
                   transformControlsRef, originalBBoxRef, dragging, orbitEnabled, isUploading,
                   exported, catalog, nMoves>>
    /\ UNCHANGED <<darkMode, gridVisible, background, gridShown, ctlVisible, thumbnailDataUrl,
                   isAnalyzing>>
    /\ UNCHANGED <<editVars, bulkVars, cropVars, matVars, formVars, queueVars>>

\* the alert is dismissed: finally
UploadFinally ==
    /\ uploadPc = "alert"
    /\ uploadPc' = "idle"
    /\ isUploading' = FALSE
    /\ exported' = NULL
    /\ alertText' = NULL
    /\ UNCHANGED <<file, targetHeight, scaleFactor, transformMode, transformModeRef,
                   manualPositionSet, manualPositionSetRef, loads, sceneRef, modelRef,
                   transformControlsRef, originalBBoxRef, dragging, orbitEnabled, uploadResult,
                   catalog, nMoves>>
    /\ UNCHANGED <<darkMode, gridVisible, background, gridShown, ctlVisible, thumbnailDataUrl,
                   isAnalyzing>>
    /\ UNCHANGED <<editVars, bulkVars, cropVars, matVars, formVars, queueVars>>

\* upload resolves: set uploadResult, append the catalog record, finally
UploadDone ==
    /\ uploadPc = "uploading"
    /\ uploadPc' = "idle"
    /\ isUploading' = FALSE
    /\ uploadResult' = [pathname |-> exported.file]
    /\ catalog' = Append(catalog, [file |-> exported.file,
                                   targetHeight |-> IF exported.targetHeight = "" \/ NumberOf(exported.targetHeight) = 0
                                                    THEN "null" ELSE exported.targetHeight,
                                   scaleFactor |-> exported.scaleFactor])
    /\ exported' = NULL
    /\ UNCHANGED <<file, targetHeight, scaleFactor, transformMode, transformModeRef,
                   manualPositionSet, manualPositionSetRef, loads, sceneRef, modelRef,
                   transformControlsRef, originalBBoxRef, dragging, orbitEnabled, nMoves>>
    /\ UNCHANGED <<viewVars, editVars, bulkVars, cropVars, matVars, formVars, queueVars>>

----------------------------------------------------------------------------
(* A session with one file: the user selects it, sets a height, edits the   *)
(* model with the widget, presses Snap and uploads                          *)

FirstFile(f) == loads = <<>> /\ HandleFile(f)

Next ==
    \/ \E f \in Files : FirstFile(f)
    \/ \E k \in DOMAIN loads : InitPreview(k)
    \/ \E k \in DOMAIN loads : LoaderCallback(k)
    \/ \E h \in Heights \cup {""} : SetTargetHeight(h)
    \/ \E mode \in Modes : SetTransformMode(mode)
    \/ DragStart
    \/ DragMove
    \/ DragEnd
    \/ SnapButton
    \/ HandleUpload
    \/ SerializeDone
    \/ UploadFail
    \/ UploadFinally
    \/ UploadDone

Spec == Init /\ [][Next]_vars

----------------------------------------------------------------------------
(* Several files, selected while earlier ones are still being read or       *)
(* decoded, and target-height edits: the scale factor against the model     *)

NextScale ==
    \/ \E f \in Files : HandleFile(f)
    \/ \E k \in DOMAIN loads : InitPreview(k)
    \/ \E k \in DOMAIN loads : LoaderCallback(k)
    \/ \E k \in DOMAIN loads : LoaderError(k)
    \/ \E h \in Heights \cup {""} : SetTargetHeight(h)

SpecScale == Init /\ [][NextScale]_vars

----------------------------------------------------------------------------
(* The drag session: a file has been loaded, and the user switches modes,  *)
(* drags the widget and presses Snap                                       *)

InitDrag ==
    /\ EditInit /\ BulkInit /\ CropInit /\ MatInit /\ QueueInit
    /\ darkMode = FALSE
    /\ gridVisible = FALSE
    /\ background = "white"
    /\ gridShown = FALSE
    /\ ctlVisible = TRUE
    /\ thumbnailDataUrl = NULL
    /\ isAnalyzing = FALSE
    /\ alertText = NULL
    /\ \E f \in Files :
          /\ file = f
          /\ FormOf(f)
          /\ loads = <<[NewLoad(f, Content(f)) EXCEPT !.stage = "loaded",
                                                      !.model = Normalize(Content(f)),
                                                      !.ctlMode = "rotate"]>>
          /\ originalBBoxRef = SetFromObject(Content(f))
    /\ sceneRef = 1
    /\ modelRef = 1
    /\ transformControlsRef = 1
    /\ targetHeight = ""
    /\ scaleFactor = NULL
    /\ transformMode = "rotate"
    /\ transformModeRef = "rotate"
    /\ manualPositionSet = FALSE
    /\ manualPositionSetRef = FALSE
    /\ dragging = FALSE
    /\ orbitEnabled = TRUE
    /\ isUploading = FALSE
    /\ uploadPc = "idle"
    /\ exported = NULL
    /\ uploadResult = NULL
    /\ catalog = <<>>
    /\ nMoves = 0

NextDrag ==
    \/ \E mode \in Modes : SetTransformMode(mode)
    \/ DragStart
    \/ PointerMove(MaxDragMoves)
    \/ DragEnd
    \/ SnapButton

SpecDrag == InitDrag /\ [][NextDrag]_vars

----------------------------------------------------------------------------
(* The two drag handlers: the upload preview of a loaded file, or the edit  *)
(* modal opened on catalog items while no file is selected for upload      *)

NextEdit ==
    \/ \E item \in Files : OpenEdit(item)
    \/ CloseEdit
    \/ \E k \in DOMAIN editLoads : EditLoaderCallback(k)
    \/ \E mode \in Modes : SetEditTransformMode(mode)
    \/ EditDragStart
    \/ EditPointerMove(MaxMoves)
    \/ EditDragEnd
    \/ EditSnapButton

InitHandlers == InitDrag \/ Init

NextHandlers ==
    \/ \E mode \in Modes : SetTransformMode(mode)
    \/ DragStart
    \/ PointerMove(MaxDragMoves)
    \/ DragEnd
    \/ SnapButton
    \/ \E item \in Files : file = NoFile /\ OpenEdit(item)
    \/ file = NoFile /\ CloseEdit
    \/ \E k \in DOMAIN editLoads : file = NoFile /\ EditLoaderCallback(k)
    \/ \E mode \in Modes : file = NoFile /\ SetEditTransformMode(mode)
    \/ file = NoFile /\ EditDragStart
    \/ file = NoFile /\ EditPointerMove(MaxMoves)
    \/ file = NoFile /\ EditDragEnd
    \/ file = NoFile /\ EditSnapButton

SpecHandlers == InitHandlers /\ [][NextHandlers]_vars

----------------------------------------------------------------------------
(* The viewports: the upload preview with its dark-mode, grid, capture and  *)
(* analysis buttons, the edit modal's capture, the bulk upload's capture.   *)
(* The three share no state; a behaviour uses one of them.                  *)

UploadUnused == file = NoFile

EditUnused == editLoads = <<>>

BulkUnused == bulkBackground = "null" /\ bulkThumbnail = NULL

NextView ==
    \/ \E f \in Files : EditUnused /\ BulkUnused /\ FirstFile(f)
    \/ \E k \in DOMAIN loads : InitPreview(k)
    \/ \E k \in DOMAIN loads : LoaderCallback(k)
    \/ ToggleDarkMode
    \/ ToggleGrid
    \/ CaptureButton
    \/ AnalyzeStart
    \/ \E h \in Heights \cup {""} : AnalyzeDone(h)
    \/ AnalyzeFail
    \/ \E item \in Files : UploadUnused /\ BulkUnused /\ OpenEdit(item)
    \/ CloseEdit
    \/ \E k \in DOMAIN editLoads : EditLoaderCallback(k)
    \/ EditCapture
    \/ UploadUnused /\ EditUnused /\ BulkStart
    \/ BulkCapture
    \/ BulkSkip
    \/ BulkEnd

SpecView == Init /\ [][NextView]_vars

----------------------------------------------------------------------------
(* The manual-position flags through a session: file loads, mode switches,  *)
(* drags (their start and end), Snap, captures, analyses and an export up   *)
(* to its upload request                                                    *)

NextFlags ==
    \/ HandleFile("flat.glb")
    \/ \E k \in DOMAIN loads : InitPreview(k)
    \/ \E k \in DOMAIN loads : LoaderCallback(k)
    \/ \E mode \in Modes : SetTransformMode(mode)
    \/ DragStart
    \/ DragEnd
    \/ SnapButton
    \/ CaptureButton
    \/ AnalyzeStart
    \/ AnalyzeDone("")
    \/ AnalyzeFail
    \/ HandleUpload
    \/ SerializeDone

SpecFlags == Init /\ [][NextFlags]_vars

----------------------------------------------------------------------------
(* Analyses: file selections, the request and each answer it can get *)

NextAnalysis ==
    \/ \E f \in Files : HandleFile(f)
    \/ \E k \in DOMAIN loads : InitPreview(k)
    \/ \E k \in DOMAIN loads : LoaderCallback(k)
    \/ AnalyzeStart
    \/ \E data \in Bodies : AnalyzeResponse(data)
    \/ AnalyzeFail

SpecAnalysis == Init /\ [][NextAnalysis]_vars

----------------------------------------------------------------------------
(* Exports while files are selected, decoded or fail to decode *)

NextReload ==
    \/ \E f \in Files : HandleFile(f)
    \/ \E k \in DOMAIN loads : InitPreview(k)
    \/ \E k \in DOMAIN loads : LoaderCallback(k)
    \/ \E k \in DOMAIN loads : LoaderError(k)
    \/ HandleUpload
    \/ SerializeDone
    \/ UploadDone

SpecReload == Init /\ [][NextReload]_vars

----------------------------------------------------------------------------
(* Exports of a loaded model, with every way handleUpload can end *)

NextUpload ==
    \/ \E h \in Heights \cup {""} : SetTargetHeight(h)
    \/ \E mode \in Modes : SetTransformMode(mode)
    \/ HandleUpload
    \/ SerializeDone
    \/ UploadFail
    \/ CatalogFail
    \/ UploadFinally
    \/ UploadDone

SpecUpload == InitDrag /\ [][NextUpload]_vars

----------
(* Normalization over every box with coordinates in Coords: a file whose   *)
(* model is one mesh with that bounding box has been read and is decoded   *)

Boxes ==
    { b \in [min : Coords \X Coords \X Coords, max : Coords \X Coords \X Coords] :
        \A c \in 1..3 : b.min[c] <= b.max[c] }

InitNorm ==
    /\ \E b \in Boxes :
          loads = <<[NewLoad("box.glb", BoxContent(Vec(b.min[1], b.min[2], b.min[3]),
                                                    Vec(b.max[1], b.max[2], b.max[3])))
                       EXCEPT !.stage = "decoding"]>>
    /\ EditInit /\ BulkInit /\ CropInit /\ MatInit /\ QueueInit /\ FormOf("box.glb")
    /\ darkMode = FALSE
    /\ gridVisible = FALSE
    /\ background = "white"
    /\ gridShown = FALSE
    /\ ctlVisible = TRUE
    /\ thumbnailDataUrl = NULL
    /\ isAnalyzing = FALSE
    /\ alertText = NULL
    /\ file = "box.glb"
    /\ sceneRef = 1
    /\ targetHeight = ""
    /\ scaleFactor = NULL
    /\ transformMode = "rotate"
    /\ transformModeRef = "rotate"
    /\ manualPositionSet = FALSE
    /\ manualPositionSetRef = FALSE
    /\ modelRef = 0
    /\ transformControlsRef = 0
    /\ originalBBoxRef = NULL
    /\ dragging = FALSE
    /\ orbitEnabled = TRUE
    /\ isUploading = FALSE
    /\ uploadPc = "idle"
    /\ exported = NULL
    /\ uploadResult = NULL
    /\ catalog = <<>>
    /\ nMoves = 0

NextNorm == \E k \in DOMAIN loads : LoaderCallback(k)

SpecNorm == InitNorm /\ [][NextNorm]_vars

----------------------------------------------------------------------------
(* Measurements the claims use *)

\* the Y extent of a model's world bounds
Height(m) == BoxSize(SetFromObject(m))[2]

\* the largest of the three extents of a box
MaxDim(box) == RMax(RMax(BoxSize(box)[1], BoxSize(box)[2]), BoxSize(box)[3])

NonDegenerate(box) == RLt(Q(0), MaxDim(box))

Loaded(k) == k \in DOMAIN loads /\ loads[k].stage = "loaded" /\ loads[k].model # NULL

\* the step is the 'dragging-changed' handler with value false, in the upload preview
DragEnded == dragging /\ ~dragging' /\ sceneRef' = sceneRef /\ sceneRef # 0

\* the same in the edit modal
EditDragEnded ==
    editDragging /\ ~editDragging' /\ editSceneRef' = editSceneRef /\ editSceneRef # 0

\* models a and b differ at most in position.y
SameButY(a, b) == a = [b EXCEPT !.position[2] = a.position[2]]

----------------------------------------------------------------------------
(* Claims *)

\* C1: for a target height H set on a loaded model, the exported asset's measured
\* height (the Y extent of the export scene's world bounds, corrective root scale
\* applied) equals H, whatever drags were performed between load and export.
C1_ExportedHeightIsTarget ==
    (exported # NULL /\ exported.targetHeight # "" /\ Truthy(exported.scaleFactor))
        => Height(exported.scene) = Q(NumberOf(exported.targetHeight))

\* C2: whenever a model is loaded and targetHeight is set, scaleFactor is targetHeight
\* divided by the load-time height of the currently loaded model, and scaleFactor is
\* null when targetHeight is empty, after any order of loads and height edits.
C2_ScaleFactorTracksLoadedModel ==
    /\ targetHeight = "" => scaleFactor = NULL
    /\ (modelRef # 0 /\ targetHeight # "")
          => scaleFactor = RDiv(Q(NumberOf(targetHeight)),
                                BoxSize(SetFromObject(loads[modelRef].content))[2])

\* C3: at export with a scale factor set, the uniform scale of the baked clone root is
\* scaleFactor divided by the preview scale normalization computed at load
\* (2 / maxDim of the original bounds), whatever scale-mode drags happened since.
C3_FinalScaleDividesLoadPreviewScale ==
    (exported # NULL /\ Truthy(exported.scaleFactor) /\ modelRef # 0)
        => exported.scene.scale =
              SetScalar(RDiv(exported.scaleFactor,
                             PreviewScale(SetFromObject(loads[modelRef].content))))

\* C4: after baking and before the corrective scale, every vertex of the export clone
\* has the world position it had in the live preview, the mesh's local transform and
\* the clone root's transform being identity, for every node hierarchy.
C4_BakeKeepsWorldPositions ==
    exported # NULL
        => /\ WorldVertices(exported.baked) = WorldVertices(exported.clone)
           /\ exported.baked.mesh = IdentityTRS
           /\ RootTRS(exported.baked) = IdentityTRS

\* C5: every step of handleUpload (the bake, the end of serialization, the success or
\* the failure of the upload) leaves the live models as they were: root transform,
\* descendants' transforms and vertex data.
C5_ExportLeavesLiveModel ==
    [][uploadPc' # uploadPc => (loads' = loads /\ modelRef' = modelRef)]_vars

\* an export has baked a clone whose vertices differ from the live model's, and the
\* live model is still what was cloned
C5_Witness ==
    /\ exported # NULL
    /\ Loaded(modelRef)
    /\ loads[modelRef].model = exported.clone
    /\ exported.baked.geometry # exported.clone.geometry

\* C6: after a model is loaded and normalized with manualPositionOverride false, the
\* minimum Y of its world bounds is 0, for every non-degenerate original box.
C6_GroundSnap ==
    \A k \in DOMAIN loads :
        (Loaded(k) /\ NonDegenerate(SetFromObject(loads[k].content)) /\ ~manualPositionSetRef)
            => SetFromObject(loads[k].model).min[2] = Q(0)

\* a model whose original bottom was off the ground and whose preview scale is not 1
\* stands on the ground after normalization
C6_Witness ==
    \E k \in DOMAIN loads :
        /\ Loaded(k)
        /\ SetFromObject(loads[k].content).min[2] # Q(0)
        /\ loads[k].model.scale[1] \notin {Q(1), Infinity}
        /\ SetFromObject(loads[k].model).min[2] = Q(0)

\* C7: after normalization the midpoint of the world bounds on X and on Z is 0, for
\* every non-degenerate original box, also one whose horizontal center is off origin.
C7_Centered ==
    \A k \in DOMAIN loads :
        (Loaded(k) /\ NonDegenerate(SetFromObject(loads[k].content)))
            => /\ BoxCenter(SetFromObject(loads[k].model))[1] = Q(0)
               /\ BoxCenter(SetFromObject(loads[k].model))[3] = Q(0)

\* C8: after normalization the largest of the three world-bounds extents is the
\* preview target 2, for every non-degenerate original box.
C8_PreviewExtent ==
    \A k \in DOMAIN loads :
        (Loaded(k) /\ NonDegenerate(SetFromObject(loads[k].content)))
            => MaxDim(SetFromObject(loads[k].model)) = Q(PreviewTarget)

\* a model whose largest original extent was not 2, and whose height was not its
\* largest extent, has largest extent 2 after normalization
C8_Witness ==
    \E k \in DOMAIN loads :
        /\ Loaded(k)
        /\ MaxDim(SetFromObject(loads[k].content)) \notin {Q(0), Q(PreviewTarget)}
        /\ BoxSize(SetFromObject(loads[k].content))[2] # MaxDim(SetFromObject(loads[k].content))
        /\ MaxDim(SetFromObject(loads[k].model)) = Q(PreviewTarget)

\* C9: when the loaded model's bounds have zero size (maxDim = 0), normalization
\* applies scale 1 to the root, not an infinite or undefined scale.
C9_DegenerateScaleOne ==
    \A k \in DOMAIN loads :
        (Loaded(k) /\ MaxDim(SetFromObject(loads[k].content)) = Q(0))
            => loads[k].model.scale = SetScalar(Q(1))

\* C10: when a drag ends while the mode is translate, manualPositionOverride becomes
\* true and ground-snap is skipped: the model is exactly where the drag left it.
C10_TranslateDragEndKeepsPosition ==
    [][(dragging /\ ~dragging' /\ transformModeRef = "translate")
          => (/\ manualPositionSet'
              /\ manualPositionSetRef'
              /\ loads'[sceneRef].model = loads[sceneRef].model)]_vars

\* a translate drag has ended and left the model off the ground
C10_Witness ==
    /\ WidgetLive
    /\ ~dragging
    /\ manualPositionSet
    /\ manualPositionSetRef
    /\ transformModeRef = "translate"
    /\ SetFromObject(loads[sceneRef].model).min[2] # Q(0)

\* C11: when a drag ends while the mode is rotate or scale, ground-snap runs and the
\* model's world-bounds min.y is 0 afterwards, whether or not manualPositionOverride
\* is true (also when a translate-mode drag came before).
C11_RotateScaleDragEndSnaps ==
    [][(dragging /\ ~dragging' /\ transformModeRef \in {"rotate", "scale"})
          => SetFromObject(loads'[sceneRef].model).min[2] = Q(0)]_vars

\* a translate drag lifted the model, then a rotate drag turned it, and it stands
\* on the ground with manualPositionOverride still true
C11_Witness ==
    /\ WidgetLive
    /\ ~dragging
    /\ file = "flat.glb"
    /\ manualPositionSetRef
    /\ transformModeRef = "rotate"
    /\ nMoves = 2
    /\ loads[sceneRef].model.rotation = RotX90
    /\ loads[sceneRef].model.scale = Normalize(loads[sceneRef].content).scale
    /\ SetFromObject(loads[sceneRef].model).min[2] = Q(0)

\* C12: while manualPositionOverride is true, no automatic ground-snap is applied
\* after a rotate- or scale-mode drag: the Y position is what it was when the drag
\* ended (upload preview and edit modal).
C12_OverrideSuppressesSnap ==
    [][/\ (DragEnded /\ manualPositionSetRef /\ transformModeRef \in {"rotate", "scale"})
            => loads'[sceneRef].model.position[2] = loads[sceneRef].model.position[2]
       /\ (EditDragEnded /\ editManualPositionSetRef
                /\ editTransformModeRef \in {"rotate", "scale"})
            => editLoads'[editSceneRef].model.position[2]
                  = editLoads[editSceneRef].model.position[2]]_vars

\* C12 as amended: while manualPositionOverride is true it stays true at every drag
\* end, a drag end changes nothing of the model but position.y, and it changes
\* position.y only when the mode is rotate or scale (a drag that ends in translate
\* mode is never ground-snapped); upload preview and edit modal.
C12_OverrideSuppressesTranslateSnap ==
    [][/\ (DragEnded /\ manualPositionSetRef)
            => /\ manualPositionSetRef'
               /\ SameButY(loads'[sceneRef].model, loads[sceneRef].model)
               /\ loads'[sceneRef].model.position[2] # loads[sceneRef].model.position[2]
                      => transformModeRef \in {"rotate", "scale"}
       /\ (EditDragEnded /\ editManualPositionSetRef)
            => /\ editManualPositionSetRef'
               /\ SameButY(editLoads'[editSceneRef].model, editLoads[editSceneRef].model)
               /\ editLoads'[editSceneRef].model.position[2]
                        # editLoads[editSceneRef].model.position[2]
                      => editTransformModeRef \in {"rotate", "scale"}]_vars

\* with the override set, translate-mode drags have lifted the model two units off
\* the ground and it has stayed there
C12_Witness ==
    /\ WidgetLive
    /\ ~dragging
    /\ manualPositionSetRef
    /\ transformModeRef = "translate"
    /\ nMoves = 2
    /\ SetFromObject(loads[sceneRef].model).min[2] = Q(2)

\* C13: the Snap action sets manualPositionOverride to false, both the flag the UI
\* shows and the value the drag-end handler consults, and ground-snaps the model
\* (min.y = 0), in the upload preview and in the edit modal.
C13_SnapResetsOverride ==
    [][/\ (manualPositionSet /\ ~manualPositionSet' /\ sceneRef' = sceneRef)
            => /\ ~manualPositionSetRef'
               /\ modelRef # 0 => SetFromObject(loads'[modelRef].model).min[2] = Q(0)
       /\ (editManualPositionSet /\ ~editManualPositionSet')
            => /\ ~editManualPositionSetRef'
               /\ editModelRef # 0
                      => SetFromObject(editLoads'[editModelRef].model).min[2] = Q(0)]_vars

\* C14: once manualPositionOverride is true it stays true through mode switches,
\* drags, thumbnail captures, analyses and exports; it becomes false only in a Snap
\* step or when a new file is selected, and a mode switch never changes it.
C14_OverridePersists ==
    [][/\ ((manualPositionSet /\ ~manualPositionSet')
              \/ (manualPositionSetRef /\ ~manualPositionSetRef'))
            => (SnapButton \/ Len(loads') > Len(loads))
       /\ transformMode' # transformMode
            => UNCHANGED <<manualPositionSet, manualPositionSetRef>>]_vars

\* the override was set by a translate drag and is still set after a switch to scale
\* mode, a thumbnail capture, a running analysis and an export on its way
C14_Witness ==
    /\ manualPositionSet
    /\ manualPositionSetRef
    /\ transformMode = "scale"
    /\ thumbnailDataUrl # NULL
    /\ isAnalyzing
    /\ uploadPc = "uploading"

\* C15: when a file is selected and then another before the first has decoded, the
\* final scene, model ref and original bounds (and the widget and materials set with
\* them) are those of the file selected last, in either completion order.
C15_LastSelectionWins ==
    (/\ Len(loads) = 2
     /\ \A k \in DOMAIN loads : loads[k].stage \in {"loaded", "gone"}
     /\ loads[2].stage = "loaded")
        => /\ sceneRef = 2
           /\ modelRef = 2
           /\ transformControlsRef = 2
           /\ originalBBoxRef = SetFromObject(Content(file))

\* C16: when the decode of a newly selected file fails, the scene displayed before
\* the selection stays mounted (the failed load's model-less scene is not the one
\* displayed) with its model, and the failure is reported to the user.
C16_FailedDecodeKeepsPrevious ==
    [][\A k \in DOMAIN loads :
          (loads[k].stage = "decoding" /\ loads'[k].stage \in {"failed", "gone"})
              => /\ sceneRef' # k
                 /\ alertText' # NULL
                 /\ modelRef # 0 => (sceneRef' = modelRef /\ Loaded(modelRef)')]_vars

\* C17: handleUpload sets uploadResult and appends a catalog record only when the
\* serialization and the storage upload both succeeded in that invocation; when
\* either fails, catalog and uploadResult are left unchanged, the failure is shown
\* with its cause, and isUploading is false when handleUpload has returned.
C17_UploadAllOrNothing ==
    [][/\ (uploadResult' # uploadResult /\ uploadResult' # NULL)
            => (uploadPc = "uploading" /\ exported # NULL
                  /\ uploadResult'.pathname = exported.file)
       /\ catalog' # catalog
            => /\ uploadPc = "uploading"
               /\ uploadResult' # NULL
               /\ Len(catalog') = Len(catalog) + 1
               /\ catalog'[Len(catalog')].file = exported.file
       /\ (uploadPc \in {"serializing", "uploading"} /\ uploadPc' = "alert"
                /\ alertText'.cause # "catalog")
            => /\ UNCHANGED <<catalog, uploadResult>>
               /\ alertText'.message = "Upload failed"
               /\ alertText'.cause = uploadPc
       /\ (uploadPc # "idle" /\ uploadPc' = "idle") => ~isUploading']_vars

\* the storage upload has failed: the alert shows the cause, nothing was recorded
C17_Witness ==
    /\ uploadPc = "alert"
    /\ alertText = [message |-> "Upload failed", cause |-> "uploading"]
    /\ exported # NULL
    /\ uploadResult = NULL
    /\ catalog = <<>>

\* C18: a thumbnail capture (captureThumbnail from the Capture button or the
\* analysis, the edit modal's Capture, the bulk capture) leaves the scene's
\* background, the grid's visibility and the transform widget's visibility as they
\* were before it, and it did render a thumbnail.
C18_CaptureRestoresScene ==
    [][/\ (CaptureButton \/ AnalyzeStart)
            => /\ UNCHANGED <<background, gridShown, ctlVisible>>
               /\ thumbnailDataUrl' = RenderFrame("null", FALSE, FALSE)
       /\ EditCapture
            => /\ UNCHANGED <<editBackground, editCtlVisible>>
               /\ editThumbnail' = RenderFrame("null", FALSE, FALSE)
       /\ BulkCapture
            => /\ UNCHANGED bulkBackground
               /\ bulkThumbnail' = RenderFrame("null", FALSE, FALSE)]_vars

\* a thumbnail was captured of a dark scene with the grid shown and a widget
\* attached, and the scene is still dark with its grid and widget visible
C18_Witness ==
    /\ thumbnailDataUrl # NULL
    /\ transformControlsRef # 0
    /\ background = "black"
    /\ gridShown
    /\ ctlVisible
    /\ ~isAnalyzing

\* C19: when some pixel of the frame has alpha > 10, the image autoCropImage returns
\* is the tight bounding rectangle of all pixels with alpha > 10, expanded by 10
\* pixels on each side and clamped to the frame; it has exactly that rectangle's
\* width and height (each >= 1) and holds every pixel with alpha > 10.
C19_CropIsPaddedContentBox ==
    (cropped # NULL /\ ContentPixels(canvas) # {})
        => LET xs == {p.x : p \in ContentPixels(canvas)}
               ys == {p.y : p \in ContentPixels(canvas)}
               left == IntMax(0, Least(xs) - Padding)
               top == IntMax(0, Least(ys) - Padding)
               right == IntMin(canvas.width - 1, Greatest(xs) + Padding)
               bottom == IntMin(canvas.height - 1, Greatest(ys) + Padding)
           IN  /\ cropped.left = left
               /\ cropped.top = top
               /\ cropped.width = right - left + 1
               /\ cropped.height = bottom - top + 1
               /\ cropped.width >= 1
               /\ cropped.height >= 1
               /\ \A p \in ContentPixels(canvas) :
                      /\ cropped.left <= p.x /\ p.x < cropped.left + cropped.width
                      /\ cropped.top <= p.y /\ p.y < cropped.top + cropped.height

\* C20: when no pixel of the frame has alpha above 10, autoCropImage returns the
\* whole uncropped frame; the image it returns never has a zero width or height.
C20_NoContentFullFrame ==
    cropped # NULL
        => /\ ContentPixels(canvas) = {} => cropped = ToDataURL(canvas)
           /\ cropped.width >= 1
           /\ cropped.height >= 1

\* a 2d frame of the largest size whose only non-zero pixel has alpha 10, handed
\* back whole
C20_Witness ==
    /\ canvas # NULL
    /\ cropped # NULL
    /\ GetContext2d(canvas)
    /\ canvas.width = MaxSide
    /\ canvas.pixels # {}
    /\ ContentPixels(canvas) = {}
    /\ cropped = [left |-> 0, top |-> 0, width |-> MaxSide, height |-> canvas.height]

\* C21: material extraction yields exactly one descriptor per distinct (name,
\* color-hex) pair of the traversed materials, in the order of first occurrence.
C21_OneDescriptorPerNameColor ==
    /\ Len(mats) = Cardinality({traversed[i] : i \in DOMAIN traversed})
    /\ mats = [k \in 1 .. Len(mats) |->
                  MaterialInfo(Pick(traversed, FirstPlaces(traversed), 1)[k])]

\* three materials of one name: two of the same color, one of another color,
\* two descriptors
C21_Witness ==
    /\ Len(traversed) = 3
    /\ \A i \in 1 .. 3 : traversed[i].name = "steel"
    /\ traversed[1] = traversed[3]
    /\ traversed[1].color = "ff0000"
    /\ traversed[2].color = "cccccc"
    /\ mats = <<[name |-> "steel", color |-> "#ff0000"],
                [name |-> "steel", color |-> "#cccccc"]>>

\* C22: the color palette never contains '#000000', has no duplicate entries and
\* lists the colors of the traversed materials in the order of their first
\* occurrence; when the only material color is #000000 the palette is empty.
C22_PaletteWithoutBlack ==
    LET hexes == TraversedColors(traversed)
        kept == {i \in FirstPlaces(hexes) : hexes[i] # "#000000"}
    IN  /\ \A i \in DOMAIN cols : cols[i] # "#000000"
        /\ \A i, j \in DOMAIN cols : cols[i] = cols[j] => i = j
        /\ cols = Pick(hexes, kept, 1)
        /\ (\A i \in DOMAIN hexes : hexes[i] = "#000000") => cols = <<>>

\* red, black, red again: the palette is red alone; and a scene of black
\* materials only would have none
C22_Witness ==
    /\ Len(traversed) = 3
    /\ traversed[1].color = "ff0000"
    /\ traversed[2].color = "000000"
    /\ traversed[3].color = "ff0000"
    /\ traversed[1].name # traversed[3].name
    /\ cols = <<"#ff0000">>

\* C23: a failure of the inference call (network error, error response, malformed
\* body) leaves objectName, targetHeight, tags, category and aiDescription at their
\* prior values in analyzeWithAI, and isAnalyzing returns to false.
C23_AnalysisFailureKeepsFields ==
    [][(AnalyzeFail \/ AnalyzeResponse(ErrorBody) \/ AnalyzeResponse(BadTagsBody))
          => /\ UNCHANGED <<objectName, targetHeight, tags, category, aiDescription>>
             /\ ~isAnalyzing']_vars

\* C30: the results of an inference request are applied only to the file that was
\* analyzed: an answer that arrives after another file was selected leaves the
\* form's fields as they are.
C30_LateAnswerDropped ==
    [][(isAnalyzing /\ ~isAnalyzing' /\ analysisOf # Len(loads))
          => UNCHANGED <<objectName, targetHeight, tags, category, aiDescription>>]_vars

\* C24: camera-orbit control is enabled exactly when no transform drag is in
\* progress, in every reachable state of the upload preview and of the edit modal.
C24_OrbitOffWhileDragging ==
    /\ orbitEnabled <=> ~dragging
    /\ editOrbitEnabled <=> ~editDragging

\* a drag is in progress in the edit modal with the camera orbit disabled, after a
\* drag in the same scene has ended
C24_Witness ==
    /\ editDragging
    /\ ~editOrbitEnabled
    /\ editManualPositionSetRef
    /\ orbitEnabled

\* C26: the mode the drag-end handler consults (transformModeRef) always equals the
\* mode of the manipulation widget and the mode highlighted in the UI, in the upload
\* preview and in the edit modal, also after a file is loaded while translate or
\* scale is selected.
C26_HandlerModeIsWidgetMode ==
    /\ transformModeRef = transformMode
    /\ transformControlsRef # 0 => loads[transformControlsRef].ctlMode = transformModeRef
    /\ editTransformModeRef = editTransformMode
    /\ editTransformControlsRef # 0
          => editLoads[editTransformControlsRef].ctlMode = editTransformModeRef

\* C29: whenever handleUpload runs with a file selected, the model it bakes and
\* exports is the one decoded from that selection, never that of a file selected
\* before, also when the upload is started before the decode has completed or
\* after it has failed.
C29_ExportsSelectedFile ==
    [][(uploadPc = "idle" /\ uploadPc' = "serializing")
          => /\ modelRef = Len(loads)
             /\ loads[modelRef].file = file
             /\ exported'.clone = loads[Len(loads)].model]_vars

----------------------------------------------------------------------------
\* C25: activeGenerators is always between 0 and MAX_CONCURRENT_GENERATORS, and
\* at most MAX_CONCURRENT_GENERATORS grid items are generating at once, whatever
\* the interleaving of mounts, unmounts and capture completions.
C25_AtMostTwoGenerators ==
    /\ activeGenerators \in 0..MAX_CONCURRENT_GENERATORS
    /\ Cardinality(Generating) <= MAX_CONCURRENT_GENERATORS

\* both slots are taken by generating items while a third item waits in the queue
C25_Witness ==
    /\ activeGenerators = MAX_CONCURRENT_GENERATORS
    /\ Cardinality(Generating) = MAX_CONCURRENT_GENERATORS
    /\ generationQueue # <<>>
    /\ \E i \in Items : hasThumbnail[i]

\* C27: every slot taken is released again: activeGenerators always equals the
\* number of grid items that are generating, also when a generating item is
\* unmounted or its model fails to load before the capture.
C27_SlotsAreReleased ==
    activeGenerators = Cardinality(Generating)

\* C28: the frames rendered for a file of a bulk run show that file's model and
\* no model of an earlier file, also when an earlier file failed after its model
\* had been added to the scene.
C28_SceneHoldsOnlyCurrentModel ==
    bulkRendered # NULL => bulkRendered.models = {bulkRendered.file}

====
